---- MODULE Spec2Model ----
(***************************************************************************)
(* A model of lox-js, a tree-walking interpreter for Lox.                  *)
(*                                                                         *)
(* The pipeline of run() is modelled as a state machine: a parsed program  *)
(* is resolved (Resolver), then interpreted one top-level statement at a   *)
(* time (Interpreter.interpret), and runFile turns the Reporter's flags    *)
(* into an exit code; runPrompt runs the lines of a session one by one.    *)
(* The visitors of the Resolver and of the Interpreter are recursive       *)
(* operators that thread the visitor's state; a thrown JavaScript          *)
(* exception is a completion record that every caller passes on unless the *)
(* source catches it.                                                      *)
(***************************************************************************)
EXTENDS Integers, Sequences, FiniteSets, TLC

(***************************************************************************)
(* Bounds of the model.                                                    *)
(***************************************************************************)
\* Longest program drawn from the pool of top-level statements.
MaxStmts == 2
\* Number of times the iterating programs of the corpus go round.
MaxIter == 2
\* Longest session at the prompt, in lines.
MaxLines == 2

(***************************************************************************)
(* Runtime values (value.js).  Every value is a record tagged by t.        *)
(***************************************************************************)
Nil == [t |-> "nil"]
Bool(b) == [t |-> "boolean", b |-> b]
Num(n) == [t |-> "number", n |-> n]
Str(s) == [t |-> "string", s |-> s]
\* The numbers that are not integers: NaN and the two infinities.  The model
\* has one zero (the source has 0 and -0, which === takes for equal).
NaN == [t |-> "number", special |-> "NaN"]
Infinity == [t |-> "number", special |-> "Infinity"]
NegativeInfinity == [t |-> "number", special |-> "-Infinity"]
\* The JavaScript value undefined: an absent optional argument, the result
\* of Map.get for an absent key.
Undefined == [t |-> "undefined"]
\* Placeholder stored in a slot of a variable declared without a value.
UNINITIALIZED == [t |-> "UNINITIALIZED"]
\* A Map without entries.
EmptyMap == [x \in {} |-> x]
MapGet(m, k) == IF k \in DOMAIN m THEN m[k] ELSE Undefined
MapSet(m, k, v) == [x \in (DOMAIN m) \cup {k} |-> IF x = k THEN v ELSE m[x]]

ClockFunction == [t |-> "native", name |-> "clock"]
LoxFunction(declaration, closure, isInitializer) ==
    [t |-> "function", declaration |-> declaration, closure |-> closure,
     isInitializer |-> isInitializer]
LoxClass(name, methods) == [t |-> "class", name |-> name, methods |-> methods]
\* An instance value is a reference into the sequence of instances.
InstanceRef(id) == [t |-> "instance", id |-> id]
LoxInstance(klass) == [klass |-> klass, fields |-> EmptyMap]

IsCallable(v) == v.t \in {"native", "function", "class"}

(***************************************************************************)
(* AST nodes.  A Token is modelled by its lexeme (names) or its type       *)
(* (operators).  Variable, Assign and This carry an id, the identity of    *)
(* the node object that keys the interpreter's map of hop counts.          *)
(***************************************************************************)
NoExpr == [k |-> "none"]
NoStmt == [k |-> "none"]

Literal(value) == [k |-> "Literal", value |-> value]
Grouping(expression) == [k |-> "Grouping", expression |-> expression]
Unary(operator, right) == [k |-> "Unary", operator |-> operator, right |-> right]
Binary(left, operator, right) ==
    [k |-> "Binary", left |-> left, operator |-> operator, right |-> right]
Logical(left, operator, right) ==
    [k |-> "Logical", left |-> left, operator |-> operator, right |-> right]
Ternary(cond, trueExpr, falseExpr) ==
    [k |-> "Ternary", cond |-> cond, trueExpr |-> trueExpr, falseExpr |-> falseExpr]
Variable(id, name) == [k |-> "Variable", id |-> id, name |-> name]
Assign(id, name, value) == [k |-> "Assign", id |-> id, name |-> name, value |-> value]
Call(callee, args) == [k |-> "Call", callee |-> callee, args |-> args]
GetExpr(object, name) == [k |-> "GetExpr", object |-> object, name |-> name]
SetExpr(object, name, value) ==
    [k |-> "SetExpr", object |-> object, name |-> name, value |-> value]
This(id) == [k |-> "This", id |-> id, name |-> "this"]

Expression(expression) == [k |-> "Expression", expression |-> expression]
PrintStmt(expression) == [k |-> "Print", expression |-> expression]
Var(name, initializer) == [k |-> "Var", name |-> name, initializer |-> initializer]
Block(statements) == [k |-> "Block", statements |-> statements]
If(condition, thenBranch, elseBranch) ==
    [k |-> "If", condition |-> condition, thenBranch |-> thenBranch,
     elseBranch |-> elseBranch]
While(condition, body) == [k |-> "While", condition |-> condition, body |-> body]
FunctionDecl(name, params, body) ==
    [k |-> "FunctionDecl", name |-> name, params |-> params, body |-> body]
Return(value) == [k |-> "Return", value |-> value]
Class(name, methods) == [k |-> "Class", name |-> name, methods |-> methods]

(***************************************************************************)
(* Completions: how an evaluation ended.  "normal", or one of the thrown   *)
(* objects: a RuntimeError, a ReturnValue, or a host Error (new Error).    *)
(***************************************************************************)
Normal == [k |-> "normal"]
RuntimeError(token, message) == [k |-> "RuntimeError", token |-> token, message |-> message]
ReturnValue(value) == [k |-> "ReturnValue", value |-> value]
HostError(message) == [k |-> "Error", message |-> message]

(***************************************************************************)
(* Environment (environment.js).  envs is the sequence of all environments *)
(* ever allocated; an environment is referred to by its index, and the     *)
(* enclosing environment of the globals is 0.                              *)
(***************************************************************************)
NoEnv == 0

Environment(enclosing) == [values |-> EmptyMap, enclosing |-> enclosing]

\* define that stores what it is given, also when no value is passed.
defineAsGiven(envs, env, name, value) ==
    [envs EXCEPT ![env].values = MapSet(@, name, value)]

define(envs, env, name, value) ==
    [envs EXCEPT ![env].values =
        MapSet(@, name, IF value = Undefined THEN UNINITIALIZED ELSE value)]

\* The environment distance hops up the chain, NoEnv when the chain is
\* too short (the source throws there).
RECURSIVE ancestor(_, _, _)
ancestor(envs, env, distance) ==
    IF distance = 0 THEN env
    ELSE IF envs[env].enclosing = NoEnv THEN NoEnv
    ELSE ancestor(envs, envs[env].enclosing, distance - 1)

getAt(envs, env, distance, name) ==
    LET a == ancestor(envs, env, distance)
        value == IF a = NoEnv THEN Undefined ELSE MapGet(envs[a].values, name)
    IN  IF a = NoEnv THEN [c |-> HostError("Environment chain too short."), v |-> Undefined]
        ELSE IF value = Undefined
             THEN [c |-> HostError("Variable is not defined."), v |-> Undefined]
        ELSE IF value = UNINITIALIZED
             THEN [c |-> HostError("Variable is not initialized."), v |-> Undefined]
        ELSE [c |-> Normal, v |-> value]

assignAt(envs, env, distance, name, value) ==
    LET a == ancestor(envs, env, distance)
    IN  IF a = NoEnv
        THEN [c |-> HostError("Environment chain too short."), envs |-> envs]
        ELSE [c |-> Normal, envs |-> [envs EXCEPT ![a].values = MapSet(@, name, value)]]

RECURSIVE get(_, _, _)
get(envs, env, name) ==
    LET value == MapGet(envs[env].values, name)
    IN  IF value = UNINITIALIZED
        THEN [c |-> RuntimeError(name, "Variable is not initialized."), v |-> Undefined]
        ELSE IF value # Undefined THEN [c |-> Normal, v |-> value]
        ELSE IF envs[env].enclosing # NoEnv THEN get(envs, envs[env].enclosing, name)
        ELSE [c |-> RuntimeError(name, "Undefined variable."), v |-> Undefined]

\* assign that stores the value in the environment it is called on.
assignHere(envs, env, name, value) ==
    [c |-> Normal, envs |-> [envs EXCEPT ![env].values = MapSet(@, name, value)]]

RECURSIVE assign(_, _, _, _)
assign(envs, env, name, value) ==
    IF name \in DOMAIN envs[env].values
    THEN [c |-> Normal, envs |-> [envs EXCEPT ![env].values = MapSet(@, name, value)]]
    ELSE IF envs[env].enclosing # NoEnv
         THEN assign(envs, envs[env].enclosing, name, value)
    ELSE [c |-> RuntimeError(name, "Undefined variable."), envs |-> envs]

\* The nearest environment of the chain from env that has a slot for name,
\* NoEnv when none has (instrumentation).
RECURSIVE holder(_, _, _)
holder(envs, env, name) ==
    IF name \in DOMAIN envs[env].values THEN env
    ELSE IF envs[env].enclosing = NoEnv THEN NoEnv
    ELSE holder(envs, envs[env].enclosing, name)

(***************************************************************************)
(* Resolver (resolver.js).  rs is the state of one Resolver together with  *)
(* what it has fed to its interpreter and its reporter:                    *)
(*   scopes           stack of maps from a name to its defined flag        *)
(*   currentFunction  "none", "function", "initializer" or "method"        *)
(*   currentClass     "none" or "class"                                    *)
(*   locals           the interpreter's map from a node to its hop count   *)
(*   errors           the messages passed to reporter.error, in order      *)
(*   thrown           Normal, or the host Error that was thrown            *)
(* Every step leaves a state alone in which an Error has been thrown: the  *)
(* exception leaves all the visitors, none of them catches it.             *)
(***************************************************************************)
NewResolver ==
    [scopes |-> <<>>, currentFunction |-> "none", currentClass |-> "none",
     locals |-> EmptyMap, errors |-> <<>>, thrown |-> Normal]

\* Interpreter.resolve(expr, depth): stores the hop count of a node.
Interpreter_resolve(locals, id, depth) == MapSet(locals, id, depth)

Reporter_error(rs, message) ==
    IF rs.thrown # Normal THEN rs ELSE [rs EXCEPT !.errors = Append(@, message)]

Resolver_beginScope(rs) ==
    IF rs.thrown # Normal THEN rs ELSE [rs EXCEPT !.scopes = Append(@, EmptyMap)]

Resolver_endScope(rs) ==
    IF rs.thrown # Normal THEN rs
    ELSE IF rs.scopes = <<>> THEN [rs EXCEPT !.thrown = HostError("Scope stack is empty.")]
    ELSE [rs EXCEPT !.scopes = SubSeq(@, 1, Len(@) - 1)]

Resolver_declare(rs, name) ==
    IF rs.thrown # Normal THEN rs
    ELSE IF rs.scopes = <<>> THEN rs
    ELSE LET top == Len(rs.scopes)
             declared == [rs EXCEPT !.scopes[top] = MapSet(@, name, FALSE)]
         IN  IF name \in DOMAIN rs.scopes[top]
             THEN [declared EXCEPT !.thrown =
                      HostError("Variable already declared in this scope.")]
             ELSE declared

Resolver_define(rs, name) ==
    IF rs.thrown # Normal THEN rs
    ELSE IF rs.scopes = <<>> THEN rs
    ELSE LET top == Len(rs.scopes)
         IN  IF name \notin DOMAIN rs.scopes[top]
             THEN [rs EXCEPT !.thrown = HostError("Variable not declared.")]
             ELSE IF rs.scopes[top][name] = TRUE
             THEN [rs EXCEPT !.thrown =
                      HostError("Variable already defined in this scope.")]
             ELSE [rs EXCEPT !.scopes[top] = MapSet(@, name, TRUE)]

\* The index of the innermost scope at or below i that has name, 0 if none.
RECURSIVE Resolver_findScope(_, _, _)
Resolver_findScope(scopes, i, name) ==
    IF i = 0 THEN 0
    ELSE IF name \in DOMAIN scopes[i] THEN i
    ELSE Resolver_findScope(scopes, i - 1, name)

\* A hop count that is one too many.
Resolver_hopsOffByOne(scopes, i) == Len(scopes) - i + 1

\* The hop count of a use found in scope i (1-based) of the stack.
Resolver_hops(scopes, i) == Len(scopes) - i

Resolver_resolveLocal(rs, id, name) ==
    IF rs.thrown # Normal THEN rs
    ELSE LET i == Resolver_findScope(rs.scopes, Len(rs.scopes), name)
         IN  IF i = 0 THEN rs
             ELSE [rs EXCEPT !.locals =
                      Interpreter_resolve(@, id, Resolver_hops(rs.scopes, i))]

RECURSIVE Resolver_accept(_, _)
RECURSIVE Resolver_resolve(_, _, _)
RECURSIVE Resolver_resolveFunction(_, _, _)
RECURSIVE Resolver_resolveMethods(_, _, _)

\* #declare and #define of the parameters from index i on.
RECURSIVE Resolver_declareParams(_, _, _)
Resolver_declareParams(params, i, rs) ==
    IF i > Len(params) THEN rs
    ELSE Resolver_declareParams(params, i + 1,
            Resolver_define(Resolver_declare(rs, params[i]), params[i]))

Resolver_visitBlock(stmt, rs) ==
    Resolver_endScope(Resolver_resolve(stmt.statements, 1, Resolver_beginScope(rs)))

Resolver_visitClass(stmt, rs) ==
    LET enclosingClass == rs.currentClass
        named == Resolver_define(
                     Resolver_declare([rs EXCEPT !.currentClass = "class"], stmt.name),
                     stmt.name)
        begun == Resolver_beginScope(named)
        inScope == IF begun.thrown # Normal THEN begun
                   ELSE [begun EXCEPT !.scopes[Len(begun.scopes)] = MapSet(@, "this", TRUE)]
        ended == Resolver_endScope(Resolver_resolveMethods(stmt.methods, 1, inScope))
    IN  IF ended.thrown # Normal THEN ended
        ELSE [ended EXCEPT !.currentClass = enclosingClass]

Resolver_visitExpression(stmt, rs) == Resolver_accept(stmt.expression, rs)

Resolver_visitFunctionDecl(stmt, rs) ==
    Resolver_resolveFunction(stmt, "function",
        Resolver_define(Resolver_declare(rs, stmt.name), stmt.name))

Resolver_visitIf(stmt, rs) ==
    LET r == Resolver_accept(stmt.thenBranch, Resolver_accept(stmt.condition, rs))
    IN  IF stmt.elseBranch # NoStmt THEN Resolver_accept(stmt.elseBranch, r) ELSE r

Resolver_visitPrint(stmt, rs) == Resolver_accept(stmt.expression, rs)

Resolver_visitReturn(stmt, rs) ==
    LET r1 == IF rs.currentFunction = "none"
              THEN Reporter_error(rs, "Can't return from top-level code.")
              ELSE rs
    IN  IF stmt.value # NoExpr
        THEN Resolver_accept(stmt.value,
                 IF r1.currentFunction = "initializer"
                 THEN Reporter_error(r1, "Can't return a value from an initializer.")
                 ELSE r1)
        ELSE r1

Resolver_visitVar(stmt, rs) ==
    LET r1 == Resolver_declare(rs, stmt.name)
        r2 == IF stmt.initializer # NoExpr THEN Resolver_accept(stmt.initializer, r1) ELSE r1
    IN  Resolver_define(r2, stmt.name)

Resolver_visitWhile(stmt, rs) ==
    Resolver_accept(stmt.body, Resolver_accept(stmt.condition, rs))

Resolver_visitAssign(expr, rs) ==
    Resolver_resolveLocal(Resolver_accept(expr.value, rs), expr.id, expr.name)

Resolver_visitBinary(expr, rs) ==
    Resolver_accept(expr.right, Resolver_accept(expr.left, rs))

Resolver_visitCall(expr, rs) ==
    Resolver_resolve(expr.args, 1, Resolver_accept(expr.callee, rs))

Resolver_visitGetExpr(expr, rs) == Resolver_accept(expr.object, rs)

Resolver_visitGrouping(expr, rs) == Resolver_accept(expr.expression, rs)

Resolver_visitLiteral(expr, rs) == rs

Resolver_visitLogical(expr, rs) ==
    Resolver_accept(expr.right, Resolver_accept(expr.left, rs))

Resolver_visitSetExpr(expr, rs) ==
    Resolver_accept(expr.object, Resolver_accept(expr.value, rs))

Resolver_visitTernary(expr, rs) ==
    Resolver_accept(expr.falseExpr,
        Resolver_accept(expr.trueExpr, Resolver_accept(expr.cond, rs)))

Resolver_visitThis(expr, rs) ==
    IF rs.currentClass = "none"
    THEN Reporter_error(rs, "Can't use 'this' outside of class.")
    ELSE Resolver_resolveLocal(rs, expr.id, expr.name)

Resolver_visitUnary(expr, rs) == Resolver_accept(expr.right, rs)

Resolver_visitVariable(expr, rs) ==
    IF /\ rs.scopes # <<>>
       /\ expr.name \in DOMAIN rs.scopes[Len(rs.scopes)]
       /\ rs.scopes[Len(rs.scopes)][expr.name] = FALSE
    THEN Reporter_error(rs, "Can't read local variable in its own initializer.")
    ELSE Resolver_resolveLocal(rs, expr.id, expr.name)

\* node.accept(resolver): the dispatch of the visitor pattern.
Resolver_accept(node, rs) ==
    IF rs.thrown # Normal THEN rs
    ELSE CASE node.k = "Block" -> Resolver_visitBlock(node, rs)
           [] node.k = "Class" -> Resolver_visitClass(node, rs)
           [] node.k = "Expression" -> Resolver_visitExpression(node, rs)
           [] node.k = "FunctionDecl" -> Resolver_visitFunctionDecl(node, rs)
           [] node.k = "If" -> Resolver_visitIf(node, rs)
           [] node.k = "Print" -> Resolver_visitPrint(node, rs)
           [] node.k = "Return" -> Resolver_visitReturn(node, rs)
           [] node.k = "Var" -> Resolver_visitVar(node, rs)
           [] node.k = "While" -> Resolver_visitWhile(node, rs)
           [] node.k = "Assign" -> Resolver_visitAssign(node, rs)
           [] node.k = "Binary" -> Resolver_visitBinary(node, rs)
           [] node.k = "Call" -> Resolver_visitCall(node, rs)
           [] node.k = "GetExpr" -> Resolver_visitGetExpr(node, rs)
           [] node.k = "Grouping" -> Resolver_visitGrouping(node, rs)
           [] node.k = "Literal" -> Resolver_visitLiteral(node, rs)
           [] node.k = "Logical" -> Resolver_visitLogical(node, rs)
           [] node.k = "SetExpr" -> Resolver_visitSetExpr(node, rs)
           [] node.k = "Ternary" -> Resolver_visitTernary(node, rs)
           [] node.k = "This" -> Resolver_visitThis(node, rs)
           [] node.k = "Unary" -> Resolver_visitUnary(node, rs)
           [] node.k = "Variable" -> Resolver_visitVariable(node, rs)

\* resolve(...args) from index i on.
Resolver_resolve(args, i, rs) ==
    IF i > Len(args) THEN rs
    ELSE Resolver_resolve(args, i + 1, Resolver_accept(args[i], rs))

\* A resolution that leaves the kind of the function it has resolved.
Resolver_resolveFunctionKeepingKind(stmt, functionType, rs) ==
    LET begun == Resolver_beginScope(
                     IF rs.thrown # Normal THEN rs
                     ELSE [rs EXCEPT !.currentFunction = functionType])
    IN  Resolver_endScope(
            Resolver_resolve(stmt.body, 1,
                Resolver_declareParams(stmt.params, 1, begun)))

\* A resolution in which the body is resolved in a scope of its own, inside the scope of
\* the parameters.
Resolver_resolveFunctionBodyScope(stmt, functionType, rs) ==
    LET enclosingFunction == rs.currentFunction
        begun == Resolver_beginScope(
                     IF rs.thrown # Normal THEN rs
                     ELSE [rs EXCEPT !.currentFunction = functionType])
        ended == Resolver_endScope(Resolver_endScope(
                     Resolver_resolve(stmt.body, 1,
                         Resolver_beginScope(
                             Resolver_declareParams(stmt.params, 1, begun)))))
    IN  IF ended.thrown # Normal THEN ended
        ELSE [ended EXCEPT !.currentFunction = enclosingFunction]

Resolver_resolveFunction(stmt, functionType, rs) ==
    LET enclosingFunction == rs.currentFunction
        begun == Resolver_beginScope(
                     IF rs.thrown # Normal THEN rs
                     ELSE [rs EXCEPT !.currentFunction = functionType])
        ended == Resolver_endScope(
                     Resolver_resolve(stmt.body, 1,
                         Resolver_declareParams(stmt.params, 1, begun)))
    IN  IF ended.thrown # Normal THEN ended
        ELSE [ended EXCEPT !.currentFunction = enclosingFunction]

\* The loop over the methods of a class in visitClass.
Resolver_resolveMethods(methods, i, rs) ==
    IF i > Len(methods) THEN rs
    ELSE Resolver_resolveMethods(methods, i + 1,
            Resolver_resolveFunction(methods[i],
                IF methods[i].name = "init" THEN "initializer" ELSE "method", rs))

(***************************************************************************)
(* Interpreter (interpreter.js) and the runtime objects it calls           *)
(* (function.js, class.js, instance.js).  st is the state a visitor works  *)
(* on:                                                                     *)
(*   envs, environment  all environments, and the current one              *)
(*   locals             the map of hop counts fed by the Resolver          *)
(*   instances          all LoxInstance objects ever created               *)
(*   output             the lines written by console.log                   *)
(*   c, v               the completion, and the value just computed        *)
(*   trace, inv, nextInv, closure   instrumentation: the events of the     *)
(*                      run, the running function invocation (0 at top     *)
(*                      level), the next invocation number, the closure of *)
(*                      the running function                               *)
(* Every step leaves a state alone whose completion is not Normal: the     *)
(* thrown object passes through until a catch of the source handles it.    *)
(***************************************************************************)
Interpreter_globals == 1

Throw(st, c) == [st EXCEPT !.c = c, !.v = Undefined]
Value(st, v) == [st EXCEPT !.v = v]
Log(st, event) == [st EXCEPT !.trace = Append(@, event)]

isTruthy(value) == ~(value = Bool(FALSE) \/ value = Nil)

\* left === right of the host: NaN is not equal to itself; two objects
\* are equal when they are the same object.
StrictEquals(left, right) == left = right /\ left # NaN

\* isEqual of the source, which compares with === only.
isEqualStrictly(left, right) == StrictEquals(left, right)

isEqual(left, right) == StrictEquals(left, right) \/ (left = NaN /\ right = NaN)

\* -right of the host.
Number_negate(right) ==
    CASE right = NaN -> NaN
      [] right = Infinity -> NegativeInfinity
      [] right = NegativeInfinity -> Infinity
      [] OTHER -> Num(0 - right.n)

\* The operators of the host on two numbers: < <= > >= - + * /.  A
\* quotient of two integers that is not an integer is not a number of the
\* model (no case of SLASH applies to it).
Number_apply(operator, l, r) ==
    LET infinite(v) == v \in {Infinity, NegativeInfinity}
        sign(v) == CASE v = Infinity -> 1
                     [] v = NegativeInfinity -> -1
                     [] OTHER -> IF v.n > 0 THEN 1 ELSE IF v.n < 0 THEN -1 ELSE 0
        abs(n) == IF n < 0 THEN 0 - n ELSE n
        signed(s) == IF s > 0 THEN Infinity ELSE NegativeInfinity
        lt(a, b) == CASE a = NegativeInfinity -> b # NegativeInfinity
                      [] a = Infinity -> FALSE
                      [] b = Infinity -> TRUE
                      [] b = NegativeInfinity -> FALSE
                      [] OTHER -> a.n < b.n
        add(a, b) == IF infinite(a) /\ infinite(b) THEN (IF a = b THEN a ELSE NaN)
                     ELSE IF infinite(a) THEN a
                     ELSE IF infinite(b) THEN b
                     ELSE Num(a.n + b.n)
    IN  IF l = NaN \/ r = NaN
        THEN IF operator \in {"LESS", "LESS_EQUAL", "GREATER", "GREATER_EQUAL"}
             THEN Bool(FALSE) ELSE NaN
        ELSE CASE operator = "LESS" -> Bool(lt(l, r))
               [] operator = "LESS_EQUAL" -> Bool(lt(l, r) \/ l = r)
               [] operator = "GREATER" -> Bool(lt(r, l))
               [] operator = "GREATER_EQUAL" -> Bool(lt(r, l) \/ l = r)
               [] operator = "MINUS" -> add(l, Number_negate(r))
               [] operator = "PLUS" -> add(l, r)
               [] operator = "STAR" ->
                    IF infinite(l) \/ infinite(r)
                    THEN IF sign(l) * sign(r) = 0 THEN NaN ELSE signed(sign(l) * sign(r))
                    ELSE Num(l.n * r.n)
               [] operator = "SLASH" ->
                    CASE infinite(l) /\ infinite(r) -> NaN
                      [] infinite(l) /\ ~infinite(r) ->
                           signed(sign(l) * (IF sign(r) < 0 THEN -1 ELSE 1))
                      [] ~infinite(l) /\ infinite(r) -> Num(0)
                      [] ~infinite(l) /\ ~infinite(r) /\ r.n = 0 ->
                           IF l.n = 0 THEN NaN ELSE signed(sign(l))
                      [] ~infinite(l) /\ ~infinite(r) /\ r.n # 0
                           /\ abs(l.n) % abs(r.n) = 0 ->
                           Num(sign(l) * sign(r) * (abs(l.n) \div abs(r.n)))

stringify(value, instances) ==
    CASE value.t = "nil" -> "nil"
      [] value.t = "boolean" -> IF value.b THEN "true" ELSE "false"
      [] value.t = "number" -> IF "n" \in DOMAIN value THEN ToString(value.n) ELSE value.special
      [] value.t = "string" -> value.s
      [] value.t = "function" -> "<fn " \o value.declaration.name \o ">"
      [] value.t = "class" -> value.name
      [] value.t = "instance" -> instances[value.id].klass.name \o " instance"
      [] value.t = "native" -> "[object Object]"

checkNumberOperand(operator, operand, st) ==
    IF operand.t # "number"
    THEN Throw(st, RuntimeError(operator, "Operand must be a number"))
    ELSE st

checkNumberOperands(operator, left, right, st) ==
    IF left.t # "number"
    THEN Throw(st, RuntimeError(operator, "Left operand must be a number"))
    ELSE IF right.t # "number"
    THEN Throw(st, RuntimeError(operator, "right operand must be a number"))
    ELSE st

RECURSIVE Interpreter_execute(_, _)
RECURSIVE Interpreter_evaluate(_, _)
RECURSIVE Interpreter_executeAll(_, _, _)
RECURSIVE Interpreter_evaluateArgs(_, _, _, _)
RECURSIVE Interpreter_visitWhile(_, _)
RECURSIVE Callable_call(_, _, _)

\* A restore that is a statement after the loop, not a finally clause.
Interpreter_restoreAfterLoop(r, previous) ==
    IF r.c = Normal THEN [r EXCEPT !.environment = previous] ELSE r

\* The finally clause of executeBlock.
Interpreter_finally(r, previous) == [r EXCEPT !.environment = previous]

Interpreter_executeBlock(statements, environment, st) ==
    IF st.c # Normal THEN st
    ELSE LET previous == st.environment
         IN  Interpreter_finally(
                 Interpreter_executeAll(statements, 1,
                     [st EXCEPT !.environment = environment]),
                 previous)

Interpreter_visitBlock(stmt, st) ==
    Interpreter_executeBlock(stmt.statements, Len(st.envs) + 1,
        [st EXCEPT !.envs = Append(@, Environment(st.environment))])

Interpreter_visitExpression(stmt, st) == Interpreter_evaluate(stmt.expression, st)

Interpreter_visitFunctionDecl(stmt, st) ==
    LET fn == LoxFunction(stmt, st.environment, FALSE)
    IN  [st EXCEPT !.envs = define(@, st.environment, stmt.name, fn)]

Interpreter_visitIf(stmt, st) ==
    LET branch(r) ==
            IF r.c # Normal THEN r
            ELSE IF isTruthy(r.v) THEN Interpreter_execute(stmt.thenBranch, r)
            ELSE IF stmt.elseBranch # NoStmt THEN Interpreter_execute(stmt.elseBranch, r)
            ELSE r
    IN  branch(Interpreter_evaluate(stmt.condition, st))

Interpreter_visitPrint(stmt, st) ==
    LET log(r) ==
            IF r.c # Normal THEN r
            ELSE [r EXCEPT !.output = Append(@, stringify(r.v, r.instances))]
    IN  log(Interpreter_evaluate(stmt.expression, st))

Interpreter_visitReturn(stmt, st) ==
    LET throw(r) ==
            IF r.c # Normal THEN r
            ELSE Throw(Log(r, [e |-> "return", inv |-> r.inv, value |-> r.v]),
                       ReturnValue(r.v))
    IN  throw(IF stmt.value # NoExpr THEN Interpreter_evaluate(stmt.value, st)
              ELSE Value(st, Nil))

Interpreter_visitVar(stmt, st) ==
    LET defineIn(r) ==
            IF r.c # Normal THEN r
            ELSE [r EXCEPT !.envs = define(@, r.environment, stmt.name, r.v)]
    IN  defineIn(IF stmt.initializer # NoExpr
                 THEN Interpreter_evaluate(stmt.initializer, st)
                 ELSE Value(st, Undefined))

\* A loop that takes a return signal out of its body for the end of the
\* loop.
Interpreter_visitWhileCatching(stmt, st) ==
    LET body(b) ==
            IF b.c.k = "ReturnValue" THEN [b EXCEPT !.c = Normal]
            ELSE Interpreter_visitWhile(stmt, b)
        loop(r) ==
            IF r.c # Normal THEN r
            ELSE IF isTruthy(r.v) THEN body(Interpreter_execute(stmt.body, r))
            ELSE r
    IN  loop(Interpreter_evaluate(stmt.condition, st))

Interpreter_visitWhile(stmt, st) ==
    LET loop(r) ==
            IF r.c # Normal THEN r
            ELSE IF isTruthy(r.v)
            THEN Interpreter_visitWhile(stmt, Interpreter_execute(stmt.body, r))
            ELSE r
    IN  loop(Interpreter_evaluate(stmt.condition, st))

\* Reads a variable or `this`: through the hop count when the node has
\* one, in the globals otherwise.
Interpreter_lookUpVariable(name, id, st) ==
    LET r == IF id \in DOMAIN st.locals
             THEN getAt(st.envs, st.environment, st.locals[id], name)
             ELSE get(st.envs, Interpreter_globals, name)
        env == IF id \in DOMAIN st.locals
               THEN ancestor(st.envs, st.environment, st.locals[id])
               ELSE Interpreter_globals
    IN  IF r.c # Normal THEN Throw(st, r.c)
        ELSE Value(Log(st, [e |-> "read", node |-> id, name |-> name,
                            closure |-> st.closure, env |-> env, value |-> r.v]),
                   r.v)

Interpreter_visitVariable(expr, st) == Interpreter_lookUpVariable(expr.name, expr.id, st)

Interpreter_visitThis(expr, st) == Interpreter_lookUpVariable("this", expr.id, st)

Interpreter_visitAssign(expr, st) ==
    LET store(r, a, env) ==
            IF r.c # Normal THEN r
            ELSE IF a.c # Normal THEN Throw(r, a.c)
            ELSE Log([r EXCEPT !.envs = a.envs],
                     [e |-> "write", node |-> expr.id, name |-> expr.name,
                      closure |-> r.closure, env |-> env, value |-> r.v])
        assignIn(r) ==
            IF r.c # Normal THEN r
            ELSE IF expr.id \in DOMAIN r.locals
            THEN store(r, assignAt(r.envs, r.environment, r.locals[expr.id],
                                   expr.name, r.v),
                       ancestor(r.envs, r.environment, r.locals[expr.id]))
            ELSE store(r, assign(r.envs, Interpreter_globals, expr.name, r.v),
                       holder(r.envs, Interpreter_globals, expr.name))
    IN  assignIn(Interpreter_evaluate(expr.value, st))

Interpreter_visitBinary(expr, st) ==
    LET op == expr.operator
        numbers(left, right, r) ==
            IF left.t # "number" \/ right.t # "number"
            THEN checkNumberOperands(op, left, right, r)
            ELSE Value(r, Number_apply(op, left, right))
        apply(left, r) ==
            IF r.c # Normal THEN r
            ELSE CASE op \in {"LESS", "LESS_EQUAL", "GREATER", "GREATER_EQUAL",
                              "MINUS", "STAR", "SLASH"} -> numbers(left, r.v, r)
                   [] op = "BANG_EQUAL" -> Value(r, Bool(~isEqual(left, r.v)))
                   [] op = "EQUAL_EQUAL" -> Value(r, Bool(isEqual(left, r.v)))
                   [] op = "PLUS" ->
                        IF left.t = "number" /\ r.v.t = "number"
                        THEN Value(r, Number_apply(op, left, r.v))
                        ELSE IF left.t = "string" /\ r.v.t = "string"
                        THEN Value(r, Str(left.s \o r.v.s))
                        ELSE Throw(r, RuntimeError(op,
                                 "Operands must be two numbers or two strings."))
                   [] op = "COMMA" -> Value(r, r.v)
                   [] OTHER -> Throw(r, HostError("Unexpected binary operator"))
        right(l) == apply(l.v, Interpreter_evaluate(expr.right, l))
    IN  right(Interpreter_evaluate(expr.left, st))

LoxFunction_arity(fn) == Len(fn.declaration.params)

LoxClass_findMethod(klass, name) == MapGet(klass.methods, name)

LoxClass_arity(klass) ==
    LET initializer == LoxClass_findMethod(klass, "init")
    IN  IF initializer # Undefined THEN LoxFunction_arity(initializer) ELSE 0

ClockFunction_arity == 0

\* callee.arity(): the dispatch on the class of the callable.
Callable_arity(callee) ==
    CASE callee.t = "function" -> LoxFunction_arity(callee)
      [] callee.t = "class" -> LoxClass_arity(callee)
      [] callee.t = "native" -> ClockFunction_arity

\* `Expected ${callee.arity()} arguments but got ${args.length}.`
ArityMessage(arity, length) ==
    "Expected " \o ToString(arity) \o " arguments but got " \o ToString(length) \o "."

\* A call that checks the callee before it evaluates the arguments.
Interpreter_visitCallCheckingFirst(expr, st) ==
    LET call(callee, a) ==
            IF a.c # Normal THEN a
            ELSE IF Len(a.v) # Callable_arity(callee)
            THEN Throw(a, RuntimeError("paren",
                                       ArityMessage(Callable_arity(callee), Len(a.v))))
            ELSE Callable_call(callee, a.v, a)
        arguments(f) ==
            IF f.c # Normal THEN f
            ELSE IF ~IsCallable(f.v)
            THEN Throw(f, RuntimeError("paren", "Can only call functions and classes."))
            ELSE call(f.v, Interpreter_evaluateArgs(expr.args, 1, <<>>, f))
    IN  arguments(Interpreter_evaluate(expr.callee, st))

Interpreter_visitCall(expr, st) ==
    LET call(callee, a) ==
            IF a.c # Normal THEN a
            ELSE IF ~IsCallable(callee)
            THEN Throw(a, RuntimeError("paren", "Can only call functions and classes."))
            ELSE IF Len(a.v) # Callable_arity(callee)
            THEN Throw(a, RuntimeError("paren",
                                       ArityMessage(Callable_arity(callee), Len(a.v))))
            ELSE Callable_call(callee, a.v, a)
        arguments(f) == call(f.v, Interpreter_evaluateArgs(expr.args, 1, <<>>, f))
    IN  arguments(Interpreter_evaluate(expr.callee, st))

Interpreter_visitGrouping(expr, st) == Interpreter_evaluate(expr.expression, st)

Interpreter_visitLiteral(expr, st) == Value(st, expr.value)

\* visitLogical that evaluates both operands before it chooses.
Interpreter_visitLogicalEager(expr, st) ==
    LET finish(r, i) ==
            IF r.c # Normal THEN r
            ELSE Log(r, [e |-> "logicalEnd", left |-> i, value |-> r.v])
        choose(l, r, i) ==
            IF r.c # Normal THEN r
            ELSE IF expr.operator = "OR"
            THEN finish(IF isTruthy(l.v) THEN Value(r, l.v) ELSE r, i)
            ELSE finish(IF ~isTruthy(l.v) THEN Value(r, l.v) ELSE r, i)
        decide(l, i) == choose(l, Interpreter_evaluate(expr.right, l), i)
        right(l) ==
            IF l.c # Normal THEN l
            ELSE decide(Log(l, [e |-> "logical", operator |-> expr.operator,
                                value |-> l.v]),
                        Len(l.trace) + 1)
    IN  right(Interpreter_evaluate(expr.left, st))

\* The events "logical" (the left operand has its value) and "logicalEnd"
\* (the expression has its value; left is the position of its "logical"
\* event) are instrumentation.
Interpreter_visitLogical(expr, st) ==
    LET finish(r, i) ==
            IF r.c # Normal THEN r
            ELSE Log(r, [e |-> "logicalEnd", left |-> i, value |-> r.v])
        decide(l, i) ==
            IF expr.operator = "OR"
            THEN IF isTruthy(l.v) THEN finish(l, i)
                 ELSE finish(Interpreter_evaluate(expr.right, l), i)
            ELSE IF expr.operator = "AND"
            THEN IF ~isTruthy(l.v) THEN finish(l, i)
                 ELSE finish(Interpreter_evaluate(expr.right, l), i)
            ELSE Throw(l, HostError("Unexpected logical operator"))
        right(l) ==
            IF l.c # Normal THEN l
            ELSE decide(Log(l, [e |-> "logical", operator |-> expr.operator,
                                value |-> l.v]),
                        Len(l.trace) + 1)
    IN  right(Interpreter_evaluate(expr.left, st))

Interpreter_visitUnary(expr, st) ==
    LET apply(r) ==
            IF r.c # Normal THEN r
            ELSE CASE expr.operator = "MINUS" ->
                        IF r.v.t # "number"
                        THEN checkNumberOperand(expr.operator, r.v, r)
                        ELSE Value(r, Number_negate(r.v))
                   [] expr.operator = "BANG" -> Value(r, Bool(~isTruthy(r.v)))
                   [] OTHER -> Throw(r, HostError("Unexpected unary operator"))
    IN  apply(Interpreter_evaluate(expr.right, st))

Interpreter_visitTernary(expr, st) ==
    LET branch(c) ==
            IF c.c # Normal THEN c
            ELSE Interpreter_evaluate(IF isTruthy(c.v) THEN expr.trueExpr
                                      ELSE expr.falseExpr, c)
    IN  branch(Interpreter_evaluate(expr.cond, st))

\* The map over expr.args in visitCall, from index i on; acc holds the
\* values of the arguments before i.
Interpreter_evaluateArgs(args, i, acc, st) ==
    LET next(r) ==
            IF r.c # Normal THEN r
            ELSE Interpreter_evaluateArgs(args, i + 1, Append(acc, r.v), r)
    IN  IF st.c # Normal THEN st
        ELSE IF i > Len(args) THEN Value(st, acc)
        ELSE next(Interpreter_evaluate(args[i], st))

(***************************************************************************)
(* LoxFunction (function.js)                                               *)
(***************************************************************************)
\* A binding that defines `this` in the closure of the method itself.
LoxFunction_bindToClosure(fn, instance, st) ==
    Value(Log([st EXCEPT !.envs = define(@, fn.closure, "this", instance)],
              [e |-> "bind", env |-> fn.closure, instance |-> instance,
               closure |-> fn.closure]),
          LoxFunction(fn.declaration, fn.closure, fn.isInitializer))

LoxFunction_bindTo(fn, instance, st) ==
    LET environment == Len(st.envs) + 1
        envs == define(Append(st.envs, Environment(fn.closure)),
                       environment, "this", instance)
    IN  Value(Log([st EXCEPT !.envs = envs],
                  [e |-> "bind", env |-> environment, instance |-> instance,
                   closure |-> fn.closure]),
              LoxFunction(fn.declaration, environment, fn.isInitializer))

\* A call that allocates its environment under the environment of the
\* caller instead of the closure of the function.
LoxFunction_newEnvironmentOfCaller(fn, st) == Environment(st.environment)

\* The environment a call of fn allocates for its parameters and body.
LoxFunction_newEnvironment(fn, st) == Environment(fn.closure)

\* The loop that defines the parameters, from index i on.
RECURSIVE LoxFunction_defineParams(_, _, _, _, _)
LoxFunction_defineParams(envs, environment, params, args, i) ==
    IF i > Len(params) THEN envs
    ELSE LoxFunction_defineParams(define(envs, environment, params[i], args[i]),
                                  environment, params, args, i + 1)

\* A completion that hands the value carried by the return signal, or nil,
\* to the caller of an initializer too.
LoxFunction_completeCarried(fn, r) ==
    IF r.c.k = "ReturnValue" THEN Value([r EXCEPT !.c = Normal], r.c.value)
    ELSE IF r.c # Normal THEN r
    ELSE Value(r, Nil)

\* What call() makes of the completion r of the body: the catch clause and
\* the statements after the try.
LoxFunction_complete(fn, r) ==
    LET this == getAt(r.envs, fn.closure, 0, "this")
        caught == [r EXCEPT !.c = Normal]
    IN  IF r.c.k = "ReturnValue"
        THEN IF fn.isInitializer
             THEN IF this.c # Normal THEN Throw(caught, this.c) ELSE Value(caught, this.v)
             ELSE Value(caught, r.c.value)
        ELSE IF r.c # Normal THEN r
        ELSE IF fn.isInitializer
             THEN IF this.c # Normal THEN Throw(r, this.c) ELSE Value(r, this.v)
        ELSE Value(r, Nil)

\* What call() does once the body has completed with r: the caller's
\* invocation is current again, and a value is handed to the call site.
LoxFunction_leave(fn, st, r) ==
    IF r.c # Normal THEN [r EXCEPT !.inv = st.inv, !.closure = st.closure]
    ELSE Log([r EXCEPT !.inv = st.inv, !.closure = st.closure],
             [e |-> "callret", inv |-> st.nextInv, value |-> r.v,
              isInitializer |-> fn.isInitializer, closure |-> fn.closure,
              environment |-> r.environment])

LoxFunction_call(fn, args, st) ==
    LET environment == Len(st.envs) + 1
        envs == LoxFunction_defineParams(
                    Append(st.envs, LoxFunction_newEnvironment(fn, st)),
                    environment, fn.declaration.params, args, 1)
        entered == Log([st EXCEPT !.envs = envs, !.inv = st.nextInv,
                                  !.nextInv = @ + 1, !.closure = fn.closure],
                       [e |-> "call", inv |-> st.nextInv, env |-> environment,
                        parent |-> envs[environment].enclosing,
                        closure |-> fn.closure, caller |-> st.environment])
    IN  LoxFunction_leave(fn, st,
            LoxFunction_complete(fn,
                Interpreter_executeBlock(fn.declaration.body, environment, entered)))

(***************************************************************************)
(* LoxClass (class.js) and LoxInstance (instance.js)                       *)
(***************************************************************************)
LoxClass_call(klass, args, st) ==
    LET id == Len(st.instances) + 1
        instance == InstanceRef(id)
        created == [st EXCEPT !.instances = Append(@, LoxInstance(klass))]
        initializer == LoxClass_findMethod(klass, "init")
        construct(r) ==
            IF r.c # Normal THEN r
            ELSE Value(Log(r, [e |-> "new", instance |-> instance, klass |-> klass.name,
                               before |-> Len(st.instances)]),
                       instance)
        initialize(bound) == LoxFunction_call(bound.v, args, bound)
    IN  construct(IF initializer # Undefined
                  THEN initialize(LoxFunction_bindTo(initializer, instance, created))
                  ELSE created)

\* Date.now() / 1000: the model reads the clock as 0.
ClockFunction_call(st) == Value(st, Num(0))

\* callee.call(interpreter, args): the dispatch on the class of the callable.
Callable_call(callee, args, st) ==
    IF st.c # Normal THEN st
    ELSE CASE callee.t = "function" -> LoxFunction_call(callee, args, st)
           [] callee.t = "class" -> LoxClass_call(callee, args, st)
           [] callee.t = "native" -> ClockFunction_call(st)

\* A get that takes a field that holds nil for no field (value != null).
LoxInstance_getNotNull(instance, name, st) ==
    LET object == st.instances[instance.id]
        value == MapGet(object.fields, name)
        method == LoxClass_findMethod(object.klass, name)
    IN  IF value # Undefined /\ value # Nil THEN Value(st, value)
        ELSE IF method # Undefined THEN LoxFunction_bindTo(method, instance, st)
        ELSE Throw(st, RuntimeError(name, "Undefined property '" \o name \o "'."))

LoxInstance_get(instance, name, st) ==
    LET object == st.instances[instance.id]
        value == MapGet(object.fields, name)
        method == LoxClass_findMethod(object.klass, name)
    IN  IF value # Undefined THEN Value(st, value)
        ELSE IF method # Undefined THEN LoxFunction_bindTo(method, instance, st)
        ELSE Throw(st, RuntimeError(name, "Undefined property '" \o name \o "'."))

LoxInstance_set(instance, name, value, st) ==
    [st EXCEPT !.instances[instance.id].fields = MapSet(@, name, value)]

Interpreter_visitGetExpr(expr, st) ==
    LET get_(o) ==
            IF o.c # Normal THEN o
            ELSE IF o.v.t = "instance" THEN LoxInstance_get(o.v, expr.name, o)
            ELSE Throw(o, RuntimeError(expr.name, "Only instances have properties."))
    IN  get_(Interpreter_evaluate(expr.object, st))

Interpreter_visitSetExpr(expr, st) ==
    LET set(o, r) ==
            IF r.c # Normal THEN r
            ELSE Value(LoxInstance_set(o.v, expr.name, r.v, r), r.v)
        value(o) ==
            IF o.c # Normal THEN o
            ELSE IF o.v.t # "instance"
            THEN Throw(o, RuntimeError(expr.name, "Only instances have fields."))
            ELSE set(o, Interpreter_evaluate(expr.value, o))
    IN  value(Interpreter_evaluate(expr.object, st))

\* The map from the name of each method to its function, from index i on.
RECURSIVE Interpreter_methods(_, _, _, _)
Interpreter_methods(decls, i, environment, methods) ==
    IF i > Len(decls) THEN methods
    ELSE Interpreter_methods(decls, i + 1, environment,
            MapSet(methods, decls[i].name,
                   LoxFunction(decls[i], environment, decls[i].name = "init")))

Interpreter_visitClass(stmt, st) ==
    LET declared == define(st.envs, st.environment, stmt.name, Nil)
        klass == LoxClass(stmt.name,
                     Interpreter_methods(stmt.methods, 1, st.environment, EmptyMap))
        a == assign(declared, st.environment, stmt.name, klass)
    IN  IF a.c # Normal THEN Throw(st, a.c) ELSE [st EXCEPT !.envs = a.envs]

\* stmt.accept(interpreter).  The event records the invocation that runs
\* the statement.
Interpreter_execute(stmt, st) ==
    IF st.c # Normal THEN st
    ELSE LET s == Log(st, [e |-> "stmt", inv |-> st.inv, k |-> stmt.k])
         IN  CASE stmt.k = "Block" -> Interpreter_visitBlock(stmt, s)
               [] stmt.k = "Class" -> Interpreter_visitClass(stmt, s)
               [] stmt.k = "Expression" -> Interpreter_visitExpression(stmt, s)
               [] stmt.k = "FunctionDecl" -> Interpreter_visitFunctionDecl(stmt, s)
               [] stmt.k = "If" -> Interpreter_visitIf(stmt, s)
               [] stmt.k = "Print" -> Interpreter_visitPrint(stmt, s)
               [] stmt.k = "Return" -> Interpreter_visitReturn(stmt, s)
               [] stmt.k = "Var" -> Interpreter_visitVar(stmt, s)
               [] stmt.k = "While" -> Interpreter_visitWhile(stmt, s)

\* expr.accept(interpreter)
Interpreter_evaluate(expr, st) ==
    IF st.c # Normal THEN st
    ELSE CASE expr.k = "Assign" -> Interpreter_visitAssign(expr, st)
           [] expr.k = "Binary" -> Interpreter_visitBinary(expr, st)
           [] expr.k = "Call" -> Interpreter_visitCall(expr, st)
           [] expr.k = "GetExpr" -> Interpreter_visitGetExpr(expr, st)
           [] expr.k = "Grouping" -> Interpreter_visitGrouping(expr, st)
           [] expr.k = "Literal" -> Interpreter_visitLiteral(expr, st)
           [] expr.k = "Logical" -> Interpreter_visitLogical(expr, st)
           [] expr.k = "SetExpr" -> Interpreter_visitSetExpr(expr, st)
           [] expr.k = "Ternary" -> Interpreter_visitTernary(expr, st)
           [] expr.k = "This" -> Interpreter_visitThis(expr, st)
           [] expr.k = "Unary" -> Interpreter_visitUnary(expr, st)
           [] expr.k = "Variable" -> Interpreter_visitVariable(expr, st)

\* The loop over the statements of a block or a body, from index i on.
Interpreter_executeAll(statements, i, st) ==
    IF st.c # Normal THEN st
    ELSE IF i > Len(statements) THEN st
    ELSE Interpreter_executeAll(statements, i + 1, Interpreter_execute(statements[i], st))

(***************************************************************************)
(* Programs.  The parser's result is the input of the model: a sequence of *)
(* statements, and whether the scanner or the parser reported an error.    *)
(* The corpus holds the programs of the specification's scenarios and      *)
(* programs that take every path of the visitors; the pool holds short     *)
(* top-level statements that are put together in every order.              *)
(***************************************************************************)
\* var a = "global";
\* { fun show() { print a; } show(); var a = "local"; show(); }
ProgramShow ==
    << Var("a", Literal(Str("global"))),
       Block(<< FunctionDecl("show", <<>>, << PrintStmt(Variable(1, "a")) >>),
                Expression(Call(Variable(2, "show"), <<>>)),
                Var("a", Literal(Str("local"))),
                Expression(Call(Variable(3, "show"), <<>>)) >>) >>

\* { var a = "outer";
\*   { fun show() { print a; } show(); var a = "inner"; show(); } }
ProgramShowNested ==
    << Block(<< Var("a", Literal(Str("outer"))),
                Block(<< FunctionDecl("show", <<>>, << PrintStmt(Variable(1, "a")) >>),
                         Expression(Call(Variable(2, "show"), <<>>)),
                         Var("a", Literal(Str("inner"))),
                         Expression(Call(Variable(3, "show"), <<>>)) >>) >>) >>

\* fun mk() { var i = 0; fun inc() { i = i + 1; return i; } return inc; }
\* var c = mk(); var d = mk();
\* print c();   (MaxIter + 1 times)
\* print d();
ProgramCounter ==
    << FunctionDecl("mk", <<>>,
          << Var("i", Literal(Num(0))),
             FunctionDecl("inc", <<>>,
                << Expression(Assign(1, "i",
                       Binary(Variable(2, "i"), "PLUS", Literal(Num(1))))),
                   Return(Variable(3, "i")) >>),
             Return(Variable(4, "inc")) >>),
       Var("c", Call(Variable(5, "mk"), <<>>)),
       Var("d", Call(Variable(6, "mk"), <<>>)) >>
    \o [n \in 1..(MaxIter + 1) |-> PrintStmt(Call(Variable(10 + n, "c"), <<>>))]
    \o << PrintStmt(Call(Variable(7, "d"), <<>>)) >>

\* class C { init(x) { this.x = x; if (x) return; this.late = "ran"; } }
\* var i = C(true); var j = C(false); var k = i.init(false);
\* print k == i; print j == i; print j.late; print i.late;
ProgramInit ==
    << Class("C",
          << FunctionDecl("init", << "x" >>,
                << Expression(SetExpr(This(1), "x", Variable(2, "x"))),
                   If(Variable(3, "x"), Return(NoExpr), NoStmt),
                   Expression(SetExpr(This(4), "late", Literal(Str("ran")))) >>) >>),
       Var("i", Call(Variable(5, "C"), << Literal(Bool(TRUE)) >>)),
       Var("j", Call(Variable(6, "C"), << Literal(Bool(FALSE)) >>)),
       Var("k", Call(GetExpr(Variable(7, "i"), "init"), << Literal(Bool(FALSE)) >>)),
       PrintStmt(Binary(Variable(8, "k"), "EQUAL_EQUAL", Variable(9, "i"))),
       PrintStmt(Binary(Variable(10, "j"), "EQUAL_EQUAL", Variable(11, "i"))),
       PrintStmt(GetExpr(Variable(12, "j"), "late")),
       PrintStmt(GetExpr(Variable(13, "i"), "late")) >>

\* class P { init(n) { this.name = n; } who() { return this.name; } }
\* var i = P("i"); var j = P("j"); var m = i.who; j.borrowed = m;
\* print j.borrowed(); fun apply(f) { return f(); } print apply(m);
\* print j.who(); print m();
ProgramBinding ==
    << Class("P",
          << FunctionDecl("init", << "n" >>,
                << Expression(SetExpr(This(1), "name", Variable(2, "n"))) >>),
             FunctionDecl("who", <<>>,
                << Return(GetExpr(This(3), "name")) >>) >>),
       Var("i", Call(Variable(4, "P"), << Literal(Str("i")) >>)),
       Var("j", Call(Variable(5, "P"), << Literal(Str("j")) >>)),
       Var("m", GetExpr(Variable(6, "i"), "who")),
       Expression(SetExpr(Variable(7, "j"), "borrowed", Variable(8, "m"))),
       PrintStmt(Call(GetExpr(Variable(9, "j"), "borrowed"), <<>>)),
       FunctionDecl("apply", << "f" >>, << Return(Call(Variable(10, "f"), <<>>)) >>),
       PrintStmt(Call(Variable(11, "apply"), << Variable(12, "m") >>)),
       PrintStmt(Call(GetExpr(Variable(13, "j"), "who"), <<>>)),
       PrintStmt(Call(Variable(14, "m"), <<>>)) >>

\* fun f(n) {
\*   while (true) { { if (n < 1) return; if (true) { return n; } }
\*                  print "unreachable"; }
\*   print "unreachable"; }
\* fun g() { fun h() { return 1; } var x = h(); print "g goes on"; return x + 1; }
\* print f(0); print f(7); print g(); print "after";
ProgramReturn ==
    << FunctionDecl("f", << "n" >>,
          << While(Literal(Bool(TRUE)),
                Block(<< Block(<< If(Binary(Variable(1, "n"), "LESS", Literal(Num(1))),
                                     Return(NoExpr), NoStmt),
                                  If(Literal(Bool(TRUE)),
                                     Block(<< Return(Variable(2, "n")) >>), NoStmt) >>),
                         PrintStmt(Literal(Str("unreachable"))) >>)),
             PrintStmt(Literal(Str("unreachable"))) >>),
       FunctionDecl("g", <<>>,
          << FunctionDecl("h", <<>>, << Return(Literal(Num(1))) >>),
             Var("x", Call(Variable(3, "h"), <<>>)),
             PrintStmt(Literal(Str("g goes on"))),
             Return(Binary(Variable(4, "x"), "PLUS", Literal(Num(1)))) >>),
       PrintStmt(Call(Variable(5, "f"), << Literal(Num(0)) >>)),
       PrintStmt(Call(Variable(6, "f"), << Literal(Num(7)) >>)),
       PrintStmt(Call(Variable(7, "g"), <<>>)),
       PrintStmt(Literal(Str("after"))) >>

\* var a = 1; print a;
\* { var b = 2; fun f() { { print b; return nil + 1; } } f(); print "unreachable"; }
\* print "never";
ProgramErrorDeep ==
    << Var("a", Literal(Num(1))),
       PrintStmt(Variable(1, "a")),
       Block(<< Var("b", Literal(Num(2))),
                FunctionDecl("f", <<>>,
                   << Block(<< PrintStmt(Variable(2, "b")),
                               Return(Binary(Literal(Nil), "PLUS", Literal(Num(1)))) >>) >>),
                Expression(Call(Variable(3, "f"), <<>>)),
                PrintStmt(Literal(Str("unreachable"))) >>),
       PrintStmt(Literal(Str("never"))) >>

\* var n = 0; while (n < MaxIter) { n = n + 1; print n; } print n > 0 and !(n == 0);
ProgramLoop ==
    << Var("n", Literal(Num(0))),
       While(Binary(Variable(1, "n"), "LESS", Literal(Num(MaxIter))),
             Block(<< Expression(Assign(2, "n",
                          Binary(Variable(3, "n"), "PLUS", Literal(Num(1))))),
                      PrintStmt(Variable(4, "n")) >>)),
       PrintStmt(Logical(Binary(Variable(5, "n"), "GREATER", Literal(Num(0))), "AND",
                         Unary("BANG", Grouping(Binary(Variable(6, "n"), "EQUAL_EQUAL",
                                                       Literal(Num(0))))))) >>

\* { var a = 1; var a = 2; }
ProgramRedeclare ==
    << Block(<< Var("a", Literal(Num(1))), Var("a", Literal(Num(2))) >>) >>

\* print "before"; { var x; print x; }
ProgramUninitialized ==
    << PrintStmt(Literal(Str("before"))),
       Block(<< Var("x", NoExpr), PrintStmt(Variable(1, "x")) >>) >>

\* print "before"; var x; print x; print "after";
ProgramUninitializedGlobal ==
    << PrintStmt(Literal(Str("before"))), Var("x", NoExpr),
       PrintStmt(Variable(1, "x")), PrintStmt(Literal(Str("after"))) >>

\* print "before"; print y;
ProgramUndefined ==
    << PrintStmt(Literal(Str("before"))), PrintStmt(Variable(1, "y")) >>

\* print "one"; print this;
ProgramThisOutside ==
    << PrintStmt(Literal(Str("one"))), PrintStmt(This(1)) >>

\* var a = 1; { var a = a; }
ProgramSelfInitializer ==
    << Var("a", Literal(Num(1))), Block(<< Var("a", Variable(1, "a")) >>) >>

\* class C { init() { return 1; } } print C();
ProgramInitValue ==
    << Class("C", << FunctionDecl("init", <<>>, << Return(Literal(Num(1))) >>) >>),
       PrintStmt(Call(Variable(1, "C"), <<>>)) >>

\* class A { m() { { return this; } } } var a = A(); print a.m() == a;
\* print a.missing;
ProgramProperty ==
    << Class("A", << FunctionDecl("m", <<>>, << Block(<< Return(This(1)) >>) >>) >>),
       Var("a", Call(Variable(2, "A"), <<>>)),
       PrintStmt(Binary(Call(GetExpr(Variable(3, "a"), "m"), <<>>), "EQUAL_EQUAL",
                        Variable(4, "a"))),
       PrintStmt(GetExpr(Variable(5, "a"), "missing")) >>

\* class C { init() { fun g() { return 1; } return; return 2; }
\*           m() { return 3; } }
\* fun h() { class D { init() { if (true) return; else return 5; } } return 4; }
\* while (false) return; { return 6; }
ProgramReturns ==
    << Class("C", << FunctionDecl("init", <<>>,
                         << FunctionDecl("g", <<>>, << Return(Literal(Num(1))) >>),
                            Return(NoExpr), Return(Literal(Num(2))) >>),
                     FunctionDecl("m", <<>>, << Return(Literal(Num(3))) >>) >>),
       FunctionDecl("h", <<>>,
           << Class("D", << FunctionDecl("init", <<>>,
                                << If(Literal(Bool(TRUE)), Return(NoExpr),
                                      Return(Literal(Num(5)))) >>) >>),
              Return(Literal(Num(4))) >>),
       While(Literal(Bool(FALSE)), Return(NoExpr)),
       Block(<< Return(Literal(Num(6))) >>) >>

Corpus ==
    { ProgramReturns, ProgramShow, ProgramShowNested, ProgramCounter, ProgramInit, ProgramBinding,
      ProgramReturn, ProgramErrorDeep, ProgramLoop, ProgramRedeclare,
      ProgramUninitialized, ProgramUninitializedGlobal, ProgramUndefined,
      ProgramThisOutside, ProgramSelfInitializer,
      ProgramInitValue, ProgramProperty }

\* The pool of top-level statements:
\*   var a = 1;   print a;   a = a + 1;   return;   { var b = a; print b; }
\*   print "hi";  fun f() { print a; return a; }   print f();
Pool ==
    << Var("a", Literal(Num(1))),
       PrintStmt(Variable(1, "a")),
       Expression(Assign(2, "a", Binary(Variable(3, "a"), "PLUS", Literal(Num(1))))),
       Return(NoExpr),
       Block(<< Var("b", Variable(4, "a")), PrintStmt(Variable(5, "b")) >>),
       PrintStmt(Literal(Str("hi"))),
       FunctionDecl("f", <<>>, << PrintStmt(Variable(6, "a")), Return(Variable(7, "a")) >>),
       PrintStmt(Call(Variable(8, "f"), <<>>)) >>

\* var a = 0; fun f() { print "f"; a = a + 1; return a; }
\* print <left> <operator> <right>; print a;
ProgramLogical(left, operator, right) ==
    << Var("a", Literal(Num(0))),
       FunctionDecl("f", <<>>,
          << PrintStmt(Literal(Str("f"))),
             Expression(Assign(1, "a", Binary(Variable(2, "a"), "PLUS", Literal(Num(1))))),
             Return(Variable(3, "a")) >>),
       PrintStmt(Logical(Literal(left), operator, right)),
       PrintStmt(Variable(4, "a")) >>

\* The left operands: false and nil, and values of every other type.
LogicalLefts == {Bool(TRUE), Bool(FALSE), Nil, Num(0), Num(1), Str(""), Str("s")}

\* The right operands: f() and a = 5.
LogicalRights == {Call(Variable(5, "f"), <<>>), Assign(6, "a", Literal(Num(5)))}

LogicalPrograms ==
    { ProgramLogical(left, operator, right) :
        left \in LogicalLefts, operator \in {"OR", "AND"}, right \in LogicalRights }

\* var a = 0; fun f() { print "f"; a = a + 1; return a; }
\* print (nil or false) or f();  print (1 and nil) and f();
\* print nil or (0 and f());     print (a = 7) and f(); print a;
ProgramShortCircuit ==
    << Var("a", Literal(Num(0))),
       FunctionDecl("f", <<>>,
          << PrintStmt(Literal(Str("f"))),
             Expression(Assign(1, "a", Binary(Variable(2, "a"), "PLUS", Literal(Num(1))))),
             Return(Variable(3, "a")) >>),
       PrintStmt(Logical(Logical(Literal(Nil), "OR", Literal(Bool(FALSE))), "OR",
                         Call(Variable(4, "f"), <<>>))),
       PrintStmt(Logical(Logical(Literal(Num(1)), "AND", Literal(Nil)), "AND",
                         Call(Variable(5, "f"), <<>>))),
       PrintStmt(Logical(Literal(Nil), "OR",
                         Logical(Literal(Num(0)), "AND", Call(Variable(6, "f"), <<>>)))),
       PrintStmt(Logical(Assign(7, "a", Literal(Num(7))), "AND",
                         Call(Variable(8, "f"), <<>>))),
       PrintStmt(Variable(9, "a")) >>

\* The operands of the comparisons, each with a key: two operands have the
\* same key exactly when they evaluate to one and the same value.  2 / 2 is
\* another 1, 0 / 0 is NaN, 1 / 0 is Infinity; i.m makes a new bound method
\* each time it is evaluated and has no key.
EqualityOperands ==
    << [expr |-> Literal(Nil), key |-> "nil"],
       [expr |-> Literal(Bool(TRUE)), key |-> "true"],
       [expr |-> Literal(Bool(FALSE)), key |-> "false"],
       [expr |-> Literal(Num(0)), key |-> "0"],
       [expr |-> Literal(Num(1)), key |-> "1"],
       [expr |-> Binary(Literal(Num(2)), "SLASH", Literal(Num(2))), key |-> "1"],
       [expr |-> Literal(Str("")), key |-> "string "],
       [expr |-> Literal(Str("0")), key |-> "string 0"],
       [expr |-> Literal(Str("nil")), key |-> "string nil"],
       [expr |-> Binary(Literal(Num(0)), "SLASH", Literal(Num(0))), key |-> "NaN"],
       [expr |-> Binary(Literal(Num(1)), "SLASH", Literal(Num(0))), key |-> "Infinity"],
       [expr |-> Variable(1, "f"), key |-> "f"],
       [expr |-> Variable(2, "C"), key |-> "C"],
       [expr |-> Variable(3, "i"), key |-> "i"],
       [expr |-> Variable(4, "j"), key |-> "j"],
       [expr |-> Variable(5, "clock"), key |-> "clock"],
       [expr |-> GetExpr(Variable(6, "i"), "m"), key |-> "none"] >>

\* class C { m() { return 1; } }  fun f() {}  var i = C(); var j = C();
\* { print <x> == <y>; print <x> != <y>; print <y> == <x>; }
ProgramEquality(x, y) ==
    << Class("C", << FunctionDecl("m", <<>>, << Return(Literal(Num(1))) >>) >>),
       FunctionDecl("f", <<>>, <<>>),
       Var("i", Call(Variable(7, "C"), <<>>)),
       Var("j", Call(Variable(8, "C"), <<>>)),
       Block(<< PrintStmt(Binary(EqualityOperands[x].expr, "EQUAL_EQUAL",
                                 EqualityOperands[y].expr)),
                PrintStmt(Binary(EqualityOperands[x].expr, "BANG_EQUAL",
                                 EqualityOperands[y].expr)),
                PrintStmt(Binary(EqualityOperands[y].expr, "EQUAL_EQUAL",
                                 EqualityOperands[x].expr)) >>) >>

EqualityPrograms ==
    { ProgramEquality(x, y) : x, y \in DOMAIN EqualityOperands }

\* The sequences of 1..MaxStmts different statements of the pool.
PoolPrograms ==
    { [i \in 1..Len(p) |-> Pool[p[i]]] :
        p \in { q \in UNION { [1..n -> 1..Len(Pool)] : n \in 1..MaxStmts } :
                  \A i, j \in 1..Len(q) : i # j => q[i] # q[j] } }

\* Most arguments of a call of CallPrograms.
MaxArgs == 3

\* The callees of CallPrograms: the expression, and the arity if the value
\* is callable.
CallCallees ==
    { [expr |-> Literal(Num(0)), callable |-> FALSE, arity |-> 0, body |-> FALSE],
      [expr |-> Variable(5, "two"), callable |-> TRUE, arity |-> 2, body |-> TRUE],
      [expr |-> Variable(5, "A"), callable |-> TRUE, arity |-> 1, body |-> TRUE],
      [expr |-> Variable(5, "B"), callable |-> TRUE, arity |-> 0, body |-> FALSE],
      [expr |-> Variable(5, "clock"), callable |-> TRUE, arity |-> 0, body |-> FALSE] }

\* fun show(x) { print x; return x; }   fun two(a, b) { print "body"; }
\* class A { init(a) { print "body"; } }   class B {}
\* fun pick(c) { print "callee"; return c; }
\* pick(CALLEE)(show(1), ..., show(n));   print "after";
ProgramCall(callee, n) ==
    << FunctionDecl("show", << "x" >>,
           << PrintStmt(Variable(1, "x")), Return(Variable(2, "x")) >>),
       FunctionDecl("two", << "a", "b" >>, << PrintStmt(Literal(Str("body"))) >>),
       Class("A", << FunctionDecl("init", << "a" >>,
                         << PrintStmt(Literal(Str("body"))) >>) >>),
       Class("B", <<>>),
       FunctionDecl("pick", << "c" >>,
           << PrintStmt(Literal(Str("callee"))), Return(Variable(3, "c")) >>),
       Expression(Call(Call(Variable(4, "pick"), << callee.expr >>),
                       [i \in 1..n |-> Call(Variable(10 + i, "show"),
                                            << Literal(Num(i)) >>)])),
       PrintStmt(Literal(Str("after"))) >>

CallPrograms == { ProgramCall(callee, n) : callee \in CallCallees, n \in 0..MaxArgs }

Programs ==
    Corpus \cup PoolPrograms \cup LogicalPrograms \cup {ProgramShortCircuit}
        \cup EqualityPrograms \cup CallPrograms

(***************************************************************************)
(* Sources.  A file is one text; a session at the prompt is a sequence of  *)
(* lines.  The scanner's and the parser's results are the input of the     *)
(* model: for each text, the statements or the single expression it parses *)
(* to, and whether the scanner or the parser reported an error.            *)
(***************************************************************************)
\* A text that run() parses with parser.parse().
StatementsLine(stmts, syntaxError) ==
    [single |-> FALSE, stmts |-> stmts, expr |-> NoExpr, syntaxError |-> syntaxError]

\* A text without a semicolon: at the prompt, run() parses it with
\* parser.parseAsExpression().
ExpressionLine(expr, syntaxError) ==
    [single |-> TRUE, stmts |-> <<>>, expr |-> expr, syntaxError |-> syntaxError]

\* The lines typed at the prompt:
\*   var a = 1;
\*   a + 1
\*   fun f() { { var x = 1; return nil + x; } }
\*   f()
\*   fun g() { var y = 7; { return y; } }
\*   g()
\*   fun u() { var z; return z; }
\*   u()
\*   (a line with a syntax error, with and without a semicolon)
\*   { var a = 1; var a = 2; }
\*   fun d() { { var x = 1; return nil + x; } } d();
PromptPool ==
    << StatementsLine(<< Var("a", Literal(Num(1))) >>, FALSE),
       ExpressionLine(Binary(Variable(101, "a"), "PLUS", Literal(Num(1))), FALSE),
       StatementsLine(
          << FunctionDecl("f", <<>>,
                << Block(<< Var("x", Literal(Num(1))),
                            Return(Binary(Literal(Nil), "PLUS",
                                          Variable(102, "x"))) >>) >>) >>, FALSE),
       ExpressionLine(Call(Variable(103, "f"), <<>>), FALSE),
       StatementsLine(
          << FunctionDecl("g", <<>>,
                << Var("y", Literal(Num(7))),
                   Block(<< Return(Variable(104, "y")) >>) >>) >>, FALSE),
       ExpressionLine(Call(Variable(105, "g"), <<>>), FALSE),
       StatementsLine(
          << FunctionDecl("u", <<>>,
                << Var("z", NoExpr), Return(Variable(106, "z")) >>) >>, FALSE),
       ExpressionLine(Call(Variable(107, "u"), <<>>), FALSE),
       StatementsLine(<<>>, TRUE),
       ExpressionLine(NoExpr, TRUE),
       StatementsLine(ProgramRedeclare, FALSE),
       StatementsLine(
          << FunctionDecl("d", <<>>,
                << Block(<< Var("x", Literal(Num(1))),
                            Return(Binary(Literal(Nil), "PLUS",
                                          Variable(108, "x"))) >>) >>),
             Expression(Call(Variable(109, "d"), <<>>)) >>, FALSE) >>

\* The sessions of 1..MaxLines different lines of the pool.
Sessions ==
    { [i \in 1..Len(p) |-> PromptPool[p[i]]] :
        p \in { q \in UNION { [1..n -> 1..Len(PromptPool)] : n \in 1..MaxLines } :
                  \A i, j \in 1..Len(q) : i # j => q[i] # q[j] } }

Sources ==
    { [prompt |-> FALSE, lines |-> << StatementsLine(p, e) >>] :
        p \in Programs, e \in BOOLEAN }
    \cup { [prompt |-> TRUE, lines |-> s] : s \in Sessions }

(***************************************************************************)
(* Scanner (scanner.js).  A source is a sequence of characters, indexed    *)
(* from 0 as in the source (the character at index i is source[i + 1]).    *)
(* A Scanner is the record of its fields:                                  *)
(*   source, tokens, start, current, line                                  *)
(*   errors   the calls of reporter.error it has made: [line, message]     *)
(*   spans    for each token, the values of start and current when it was  *)
(*            added (instrumentation)                                      *)
(*   errorStarts  for each error, the value of start when it was reported  *)
(*            (instrumentation)                                            *)
(***************************************************************************)
\* null, which peek and peekNext return at the end: no character.
NoChar == ""

Digits == << "0", "1", "2", "3", "4", "5", "6", "7", "8", "9" >>

Letters ==
    { "a", "b", "c", "d", "e", "f", "g", "h", "i", "j", "k", "l", "m", "n", "o", "p",
      "q", "r", "s", "t", "u", "v", "w", "x", "y", "z", "A", "B", "C", "D", "E", "F",
      "G", "H", "I", "J", "K", "L", "M", "N", "O", "P", "Q", "R", "S", "T", "U", "V",
      "W", "X", "Y", "Z" }

isDigit(c) == \E i \in DOMAIN Digits : Digits[i] = c

isAlpha(c) == c \in Letters \/ c = "_"

isAlphaNumeric(c) == isAlpha(c) \/ isDigit(c)

KEYWORDS ==
    [and |-> "AND", class |-> "CLASS", else |-> "ELSE", false |-> "FALSE",
     for |-> "FOR", fun |-> "FUN", if |-> "IF", nil |-> "NIL", or |-> "OR",
     print |-> "PRINT", return |-> "RETURN", super |-> "SUPER", this |-> "THIS",
     true |-> "TRUE", var |-> "VAR", while |-> "WHILE"]

\* The properties every object literal inherits from Object.prototype.
ObjectPrototype ==
    { "constructor", "hasOwnProperty", "isPrototypeOf", "propertyIsEnumerable",
      "toLocaleString", "toString", "valueOf", "__proto__", "__defineGetter__",
      "__defineSetter__", "__lookupGetter__", "__lookupSetter__" }

\* KEYWORDS[text] ?? "IDENTIFIER": the look-up finds inherited properties
\* too, whose values are objects and not token types.
Scanner_keyword(text) ==
    IF text \in DOMAIN KEYWORDS THEN KEYWORDS[text]
    ELSE IF text \in ObjectPrototype THEN "Object.prototype." \o text
    ELSE "IDENTIFIER"

Token(type, lexeme, literal, line) ==
    [type |-> type, lexeme |-> lexeme, literal |-> literal, line |-> line]

\* The string of the characters chars.
RECURSIVE Join(_)
Join(chars) == IF chars = <<>> THEN "" ELSE Head(chars) \o Join(Tail(chars))

\* source.slice(start, end)
slice(source, start, end) == Join(SubSeq(source, start + 1, end))

\* Number.parseFloat of digits with an optional fraction: an integer when
\* the fraction is absent or zero, else the decimal mantissa * 10^exponent.
Number_parseFloat(chars) ==
    LET RECURSIVE value(_, _)
        value(ds, n) ==
            IF ds = <<>> THEN n
            ELSE value(Tail(ds), 10 * n + (CHOOSE d \in 0..9 : Digits[d + 1] = Head(ds)))
        RECURSIVE strip(_)
        strip(ds) == IF ds # <<>> /\ ds[Len(ds)] = "0"
                     THEN strip(SubSeq(ds, 1, Len(ds) - 1)) ELSE ds
        dot == IF \E k \in DOMAIN chars : chars[k] = "."
               THEN CHOOSE k \in DOMAIN chars : chars[k] = "."
               ELSE Len(chars) + 1
        whole == SubSeq(chars, 1, dot - 1)
        fraction == strip(SubSeq(chars, dot + 1, Len(chars)))
    IN  IF fraction = <<>> THEN Num(value(whole, 0))
        ELSE [t |-> "number", mantissa |-> value(whole \o fraction, 0),
              exponent |-> 0 - Len(fraction)]

Scanner(source) ==
    [source |-> source, tokens |-> <<>>, start |-> 0, current |-> 0, line |-> 1,
     errors |-> <<>>, spans |-> <<>>, errorStarts |-> <<>>]

Scanner_isAtEnd(s) == s.current >= Len(s.source)

\* The scanner never calls advance at the end of the source.
Scanner_advance(s) == [s EXCEPT !.current = @ + 1]

Scanner_match(s, expected) ==
    IF Scanner_isAtEnd(s) THEN [matched |-> FALSE, s |-> s]
    ELSE IF s.source[s.current + 1] # expected THEN [matched |-> FALSE, s |-> s]
    ELSE [matched |-> TRUE, s |-> [s EXCEPT !.current = @ + 1]]

Scanner_peek(s) == IF Scanner_isAtEnd(s) THEN NoChar ELSE s.source[s.current + 1]

Scanner_peekNext(s) ==
    IF s.current + 1 >= Len(s.source) THEN NoChar ELSE s.source[s.current + 2]

Scanner_addToken(s, type, literal) ==
    [s EXCEPT
       !.tokens = Append(@, Token(type, slice(s.source, s.start, s.current),
                                  literal, s.line)),
       !.spans = Append(@, << s.start, s.current >>)]

\* reporter.error(this.#line, message)
Scanner_error(s, message) ==
    [s EXCEPT !.errors = Append(@, [line |-> s.line, message |-> message]),
              !.errorStarts = Append(@, s.start)]

\* while (peek() !== '"' && !isAtEnd()) of string
RECURSIVE Scanner_stringBody(_)
Scanner_stringBody(s) ==
    IF Scanner_peek(s) # "\"" /\ ~Scanner_isAtEnd(s)
    THEN Scanner_stringBody(Scanner_advance(
             IF Scanner_peek(s) = "\n" THEN [s EXCEPT !.line = @ + 1] ELSE s))
    ELSE s

Scanner_string(s) ==
    LET close(b) ==
            IF Scanner_isAtEnd(b) THEN Scanner_error(b, "Unterminated string.")
            ELSE Scanner_addToken(Scanner_advance(b), "STRING",
                     Str(slice(b.source, b.start + 1, b.current)))
    IN  close(Scanner_stringBody(s))

\* while (isDigit(peek())) advance()
RECURSIVE Scanner_digits(_)
Scanner_digits(s) ==
    IF isDigit(Scanner_peek(s)) THEN Scanner_digits(Scanner_advance(s)) ELSE s

Scanner_number(s) ==
    LET fraction(w) ==
            IF Scanner_peek(w) = "." /\ isDigit(Scanner_peekNext(w))
            THEN Scanner_digits(Scanner_advance(w))
            ELSE w
        add(n) == Scanner_addToken(n, "NUMBER",
                      Number_parseFloat(SubSeq(n.source, n.start + 1, n.current)))
    IN  add(fraction(Scanner_digits(s)))

\* while (isAlphaNumeric(peek())) advance()
RECURSIVE Scanner_alphaNumerics(_)
Scanner_alphaNumerics(s) ==
    IF isAlphaNumeric(Scanner_peek(s)) THEN Scanner_alphaNumerics(Scanner_advance(s))
    ELSE s

Scanner_identifier(s) ==
    LET add(a) == Scanner_addToken(a, Scanner_keyword(slice(a.source, a.start, a.current)),
                                   Nil)
    IN  add(Scanner_alphaNumerics(s))

\* A comment loop that takes the newline with the comment.
Scanner_commentWithNewline(s) ==
    LET RECURSIVE skip(_)
        skip(t) == IF ~Scanner_isAtEnd(t) /\ Scanner_peek(t) # "\n"
                   THEN skip(Scanner_advance(t))
                   ELSE IF ~Scanner_isAtEnd(t) THEN Scanner_advance(t) ELSE t
    IN  skip(s)

\* while (peek() !== "\n" && !isAtEnd()) advance(): a comment
RECURSIVE Scanner_comment(_)
Scanner_comment(s) ==
    IF Scanner_peek(s) # "\n" /\ ~Scanner_isAtEnd(s)
    THEN Scanner_comment(Scanner_advance(s))
    ELSE s

\* One token, or none, from the character at current on.
Scanner_scanToken(s0) ==
    LET c == s0.source[s0.current + 1]
        s == Scanner_advance(s0)
        either(m, two, one) == Scanner_addToken(m.s, IF m.matched THEN two ELSE one, Nil)
        slash(m) == IF m.matched THEN Scanner_comment(m.s)
                    ELSE Scanner_addToken(m.s, "SLASH", Nil)
    IN  CASE c = "(" -> Scanner_addToken(s, "LEFT_PAREN", Nil)
          [] c = ")" -> Scanner_addToken(s, "RIGHT_PAREN", Nil)
          [] c = "{" -> Scanner_addToken(s, "LEFT_BRACE", Nil)
          [] c = "}" -> Scanner_addToken(s, "RIGHT_BRACE", Nil)
          [] c = "," -> Scanner_addToken(s, "COMMA", Nil)
          [] c = "." -> Scanner_addToken(s, "DOT", Nil)
          [] c = "-" -> Scanner_addToken(s, "MINUS", Nil)
          [] c = "+" -> Scanner_addToken(s, "PLUS", Nil)
          [] c = ";" -> Scanner_addToken(s, "SEMICOLON", Nil)
          [] c = "*" -> Scanner_addToken(s, "STAR", Nil)
          [] c = "!" -> either(Scanner_match(s, "="), "BANG_EQUAL", "BANG")
          [] c = "=" -> either(Scanner_match(s, "="), "EQUAL_EQUAL", "EQUAL")
          [] c = "<" -> either(Scanner_match(s, "="), "LESS_EQUAL", "LESS")
          [] c = ">" -> either(Scanner_match(s, "="), "GREATER_EQUAL", "GREATER")
          [] c = "/" -> slash(Scanner_match(s, "/"))
          [] c \in {" ", "\r", "\t"} -> s
          [] c = "\n" -> [s EXCEPT !.line = @ + 1]
          [] c = "\"" -> Scanner_string(s)
          [] OTHER -> IF isDigit(c) THEN Scanner_number(s)
                      ELSE IF isAlpha(c) THEN Scanner_identifier(s)
                      ELSE Scanner_error(s, "Unexpected character: '" \o c \o "'")

\* scanTokens from the scanner s on, to the end.
RECURSIVE Scanner_scanTokens(_)
Scanner_scanTokens(s) ==
    IF ~Scanner_isAtEnd(s)
    THEN Scanner_scanTokens(Scanner_scanToken([s EXCEPT !.start = s.current]))
    ELSE [s EXCEPT !.tokens = Append(@, Token("EOF", "", Nil, s.line)),
                   !.spans = Append(@, << s.current, s.current >>)]

(***************************************************************************)
(* The Parser (src/src/parser.js): recursive descent over the tokens of    *)
(* the Scanner.  A parser state p holds #tokens and #current, the errors   *)
(* given to the Reporter, the completion c (Normal, ParseError or a host   *)
(* Error) and the value v of the call that has just returned.  Every       *)
(* method leaves a state alone in which an exception is on its way.  The   *)
(* id of a Variable, Assign or This node is the position of its token.     *)
(* syncs, decls and assigns are instrumentation: the calls of synchronize, *)
(* of declaration and of assignment (those that found an '=').             *)
(***************************************************************************)
ParseError == [k |-> "ParseError"]

FUNCTION_MAX_ARGS == 255

Parser(tokens) ==
    [tokens |-> tokens, current |-> 0, statements |-> <<>>, errors |-> <<>>,
     c |-> Normal, v |-> Undefined, syncs |-> <<>>, decls |-> <<>>, assigns |-> <<>>]

Parser_peek(p) == p.tokens[p.current + 1]

Parser_isAtEnd(p) == Parser_peek(p).type = "EOF"

\* The token before #current; the callers have consumed one.
Parser_previous(p) == p.tokens[p.current]

Parser_check(p, type) == p.current < Len(p.tokens) /\ Parser_peek(p).type = type

\* #advance: the state after it; the token it returns is Parser_previous.
Parser_advance(p) ==
    LET previous(q) ==
            IF q.current = 0 THEN Throw(q, HostError("No previous token available."))
            ELSE q
    IN  previous(IF ~Parser_isAtEnd(p) THEN [p EXCEPT !.current = @ + 1] ELSE p)

Parser_match(p, types) ==
    IF p.current < Len(p.tokens) /\ Parser_peek(p).type \in types
    THEN [matched |-> TRUE, p |-> Parser_advance(p)]
    ELSE [matched |-> FALSE, p |-> p]

\* #error: reports to the Reporter; the caller throws the ParseError or not.
Parser_error(p, token, message) ==
    [p EXCEPT !.errors = Append(@, [token |-> token, message |-> message])]

Parser_consume(p, type, message) ==
    IF p.c # Normal THEN p
    ELSE IF Parser_check(p, type) THEN Parser_advance(p)
    ELSE Throw(Parser_error(p, Parser_peek(p), message), ParseError)

\* A test of the number of parameters or arguments that throws the
\* ParseError it makes.
Parser_tooManyThrown(p, length, message) ==
    IF length >= FUNCTION_MAX_ARGS
    THEN Throw(Parser_error(p, Parser_peek(p), message), ParseError)
    ELSE p

\* if (parameters.length >= FUNCTION_MAX_ARGS) this.#error(this.#peek(), ...),
\* and the same for args: the ParseError #error returns is not thrown.
Parser_tooMany(p, length, message) ==
    IF length >= FUNCTION_MAX_ARGS THEN Parser_error(p, Parser_peek(p), message) ELSE p

\* The token types at which #synchronize stops.
SynchronizeAt == {"CLASS", "FUN", "VAR", "FOR", "IF", "WHILE", "PRINT", "RETURN"}

\* A #synchronize that stops at the statement keywords only.
Parser_synchronizeAtKeyword(p) ==
    LET RECURSIVE discard(_)
        discard(s) ==
            IF s.c # Normal \/ Parser_isAtEnd(s) THEN s
            ELSE IF Parser_peek(s).type \in SynchronizeAt THEN s
            ELSE discard(Parser_advance(s))
        done(s) == [s EXCEPT !.syncs = Append(@, [from |-> p.current, to |-> s.current])]
    IN  done(discard(Parser_advance(p)))

Parser_synchronize(p) ==
    LET RECURSIVE discard(_)
        discard(s) ==
            IF s.c # Normal \/ Parser_isAtEnd(s) THEN s
            ELSE IF Parser_previous(s).type = "SEMICOLON" THEN s
            ELSE IF Parser_peek(s).type \in SynchronizeAt THEN s
            ELSE discard(Parser_advance(s))
        done(s) == [s EXCEPT !.syncs = Append(@, [from |-> p.current, to |-> s.current])]
    IN  done(discard(Parser_advance(p)))

\* lastTernary.falseExpr, lastTernary being the n-th Ternary on the way
\* from expr along falseExpr.
RECURSIVE LastFalseExpr(_, _)
LastFalseExpr(expr, n) ==
    IF n = 1 THEN expr.falseExpr ELSE LastFalseExpr(expr.falseExpr, n - 1)

\* lastTernary.falseExpr = nextTernary: the tree expr after the assignment.
RECURSIVE SetLastFalseExpr(_, _, _)
SetLastFalseExpr(expr, n, nextTernary) ==
    IF n = 1 THEN [expr EXCEPT !.falseExpr = nextTernary]
    ELSE [expr EXCEPT !.falseExpr = SetLastFalseExpr(@, n - 1, nextTernary)]

RECURSIVE Parser_method(_, _)

Parser_primary(p) ==
    LET token == Parser_peek(p)
        group(e) ==
            LET close(q) == IF q.c # Normal THEN q ELSE Value(q, Grouping(e.v))
            IN  close(Parser_consume(e, "RIGHT_PAREN", "Expected ')' after expression."))
    IN  IF p.c # Normal THEN p
        ELSE CASE token.type \in {"NUMBER", "STRING"} ->
                      Value(Parser_advance(p), Literal(token.literal))
               [] token.type = "FALSE" -> Value(Parser_advance(p), Literal(Bool(FALSE)))
               [] token.type = "TRUE" -> Value(Parser_advance(p), Literal(Bool(TRUE)))
               [] token.type = "NIL" -> Value(Parser_advance(p), Literal(Nil))
               [] token.type = "THIS" -> Value(Parser_advance(p), This(p.current + 1))
               [] token.type = "IDENTIFIER" ->
                      Value(Parser_advance(p), Variable(p.current + 1, token.lexeme))
               [] token.type = "LEFT_PAREN" -> group(Parser_method("expression", Parser_advance(p)))
               [] OTHER -> Throw(Parser_error(p, token, "Expected expression."), ParseError)

\* The loop of a parameter list or an argument list, before a round: the
\* Parser, the items so far, and whether there is a round to come.
Parser_list(p) == [p |-> p, items |-> <<>>, more |-> TRUE]

\* One round of do { ... } while (this.#match("COMMA")), with its item.
Parser_listed(l, a, item) ==
    IF a.c # Normal THEN [l EXCEPT !.p = a, !.more = FALSE]
    ELSE [p |-> Parser_match(a, {"COMMA"}).p, items |-> Append(l.items, item),
          more |-> Parser_match(a, {"COMMA"}).matched]

\* One round of the loop of #finishCall ("arguments") or of
\* #functionDeclaration ("parameters").
Parser_listItem(rule, l) ==
    LET argument(a) == Parser_listed(l, a, a.v)
        parameter(a) ==
            Parser_listed(l, a, IF a.c # Normal THEN Undefined ELSE Parser_previous(a).lexeme)
    IN  IF rule = "arguments"
        THEN argument(Parser_method("ternary",
                 Parser_tooMany(l.p, Len(l.items), "Cannot have more than 255 arguments.")))
        ELSE parameter(Parser_consume(
                 Parser_tooMany(l.p, Len(l.items), "Can't have more than "
                     \o ToString(FUNCTION_MAX_ARGS) \o " parameters."),
                 "IDENTIFIER", "Expected parameter name."))

\* At most n rounds of the loop, until the condition of the while is
\* false or something is thrown; the first half of the rounds, then the
\* second.
RECURSIVE Parser_rounds(_, _, _)
Parser_rounds(rule, l, n) ==
    IF l.more
    THEN IF n = 1 THEN Parser_listItem(rule, l)
         ELSE Parser_rounds(rule, Parser_rounds(rule, l, n \div 2), n - (n \div 2))
    ELSE l

\* The whole loop: every round but the last takes an item and a comma, so
\* there are no more rounds than half the tokens left, and one.
Parser_loop(rule, p) ==
    LET done(l) == IF l.p.c # Normal THEN l.p ELSE Value(l.p, l.items)
    IN  done(Parser_rounds(rule, Parser_list(p), ((Len(p.tokens) - p.current) \div 2) + 1))

Parser_finishCall(callee, p) ==
    LET paren(a) ==
            LET call(q) == IF q.c # Normal THEN q ELSE Value(q, Call(callee, a.v))
            IN  call(Parser_consume(a, "RIGHT_PAREN", "Expected ')' after arguments."))
    IN  paren(IF Parser_check(p, "RIGHT_PAREN") THEN Value(p, <<>>)
              ELSE Parser_loop("arguments", p))

Parser_call(p) ==
    LET RECURSIVE postfix(_)
        postfix(e) ==
            LET property(n) ==
                    IF n.c # Normal THEN n
                    ELSE postfix(Value(n, GetExpr(e.v, Parser_previous(n).lexeme)))
            IN  IF e.c # Normal THEN e
                ELSE IF Parser_match(e, {"LEFT_PAREN"}).matched
                THEN postfix(Parser_finishCall(e.v, Parser_advance(e)))
                ELSE IF Parser_match(e, {"DOT"}).matched
                THEN property(Parser_consume(Parser_advance(e), "IDENTIFIER",
                                        "Expected property name after '.'."))
                ELSE e
    IN  postfix(Parser_method("primary", p))

Parser_unary(p) ==
    LET unary(r) == IF r.c # Normal THEN r ELSE Value(r, Unary(Parser_peek(p).type, r.v))
    IN  IF p.c # Normal THEN p
        ELSE IF Parser_match(p, {"BANG", "MINUS"}).matched
        THEN unary(Parser_method("unary", Parser_advance(p)))
        ELSE Parser_method("call", p)

\* The methods of the binary operators, from the loosest to the tightest:
\* #or, #and, #equality, #comparison, #term, #factor.  Each is the same
\* loop over its own operators, its operands parsed by the next one; the
\* operands of #factor are parsed by #unary.
BinaryOperators ==
    << {"OR"}, {"AND"}, {"BANG_EQUAL", "EQUAL_EQUAL"},
       {"LESS", "LESS_EQUAL", "GREATER", "GREATER_EQUAL"}, {"MINUS", "PLUS"},
       {"SLASH", "STAR"} >>

RECURSIVE Parser_binary(_, _)
Parser_binary(level, p) ==
    LET operand(q) ==
            IF level = Len(BinaryOperators) THEN Parser_method("unary", q)
            ELSE Parser_binary(level + 1, q)
        node(left, operator, right) ==
            IF level <= 2 THEN Logical(left, operator, right)
            ELSE Binary(left, operator, right)
        RECURSIVE operators(_)
        operators(l) ==
            LET binary(r) ==
                    IF r.c # Normal THEN r
                    ELSE operators(Value(r, node(l.v, Parser_peek(l).type, r.v)))
            IN  IF l.c # Normal \/ ~Parser_match(l, BinaryOperators[level]).matched THEN l
                ELSE binary(operand(Parser_advance(l)))
    IN  operators(operand(p))

Parser_factor(p) == Parser_binary(6, p)

Parser_term(p) == Parser_binary(5, p)

Parser_comparison(p) == Parser_binary(4, p)

Parser_equality(p) == Parser_binary(3, p)

Parser_and(p) == Parser_binary(2, p)

Parser_or(p) == Parser_binary(1, p)

\* An #assignment that throws the ParseError of an invalid target.
Parser_assignmentThrowing(p) ==
    LET target(e, r) ==
            LET made(q) ==
                    [q EXCEPT !.assigns = Append(@,
                        [equals |-> e.current + 1, target |-> e.v, value |-> r.v,
                         result |-> q.v, thrown |-> q.c,
                         reported |-> SubSeq(q.errors, Len(r.errors) + 1, Len(q.errors))])]
            IN  IF r.c # Normal THEN r
                ELSE IF e.v.k = "Variable"
                THEN made(Value(r, Assign(e.v.id, e.v.name, r.v)))
                ELSE IF e.v.k = "GetExpr"
                THEN made(Value(r, SetExpr(e.v.object, e.v.name, r.v)))
                ELSE made(Throw(Parser_error(r, Parser_peek(e), "Invalid assignment target."),
                                ParseError))
        equals(e) ==
            IF e.c # Normal \/ ~Parser_match(e, {"EQUAL"}).matched THEN e
            ELSE target(e, Parser_method("assignment", Parser_advance(e)))
    IN  equals(Parser_method("or", p))

Parser_assignment(p) ==
    LET target(e, r) ==
            LET made(q) ==
                    [q EXCEPT !.assigns = Append(@,
                        [equals |-> e.current + 1, target |-> e.v, value |-> r.v,
                         result |-> q.v, thrown |-> q.c,
                         reported |-> SubSeq(q.errors, Len(r.errors) + 1, Len(q.errors))])]
            IN  IF r.c # Normal THEN r
                ELSE IF e.v.k = "Variable"
                THEN made(Value(r, Assign(e.v.id, e.v.name, r.v)))
                ELSE IF e.v.k = "GetExpr"
                THEN made(Value(r, SetExpr(e.v.object, e.v.name, r.v)))
                ELSE made(Value(Parser_error(r, Parser_peek(e), "Invalid assignment target."),
                                e.v))
        equals(e) ==
            IF e.c # Normal \/ ~Parser_match(e, {"EQUAL"}).matched THEN e
            ELSE target(e, Parser_method("assignment", Parser_advance(e)))
    IN  equals(Parser_method("or", p))

\* A #ternary that makes every Ternary from the expression so far.
Parser_ternaryLeft(p) ==
    LET RECURSIVE questions(_)
        questions(e) ==
            LET falseExpr(t, f) ==
                    IF f.c # Normal THEN f
                    ELSE questions(Value(f, Ternary(e.v, t.v, f.v)))
                colon(t) ==
                    falseExpr(t, Parser_method("assignment", Parser_consume(t, "COLON",
                        "Expected ':' after '?' in ternary expression.")))
            IN  IF e.c # Normal \/ ~Parser_match(e, {"QUESTION"}).matched THEN e
                ELSE colon(Parser_method("assignment", Parser_advance(e)))
    IN  questions(Parser_method("assignment", p))

\* questions(e, n): the loop of #ternary; e.v is expr, and lastTernary is
\* null when n = 0, else the n-th Ternary from expr along falseExpr.
Parser_ternary(p) ==
    LET RECURSIVE questions(_, _)
        questions(e, n) ==
            LET falseExpr(t, f) ==
                    IF f.c # Normal THEN f
                    ELSE IF n > 0
                    THEN questions(
                             Value(f, SetLastFalseExpr(e.v, n,
                                          Ternary(LastFalseExpr(e.v, n), t.v, f.v))),
                             n + 1)
                    ELSE questions(Value(f, Ternary(e.v, t.v, f.v)), 1)
                colon(t) ==
                    falseExpr(t, Parser_method("assignment", Parser_consume(t, "COLON",
                        "Expected ':' after '?' in ternary expression.")))
            IN  IF e.c # Normal \/ ~Parser_match(e, {"QUESTION"}).matched THEN e
                ELSE colon(Parser_method("assignment", Parser_advance(e)))
    IN  questions(Parser_method("assignment", p), 0)

Parser_comma(p) ==
    LET RECURSIVE operators(_)
        operators(l) ==
            LET binary(r) ==
                    IF r.c # Normal THEN r
                    ELSE operators(Value(r, Binary(l.v, Parser_peek(l).type, r.v)))
            IN  IF l.c # Normal \/ ~Parser_match(l, {"COMMA"}).matched THEN l
                ELSE binary(Parser_method("ternary", Parser_advance(l)))
    IN  operators(Parser_method("ternary", p))

Parser_expression(p) == Parser_method("comma", p)

Parser_expressionStatement(p) ==
    LET semicolon(e) ==
            LET made(q) == IF q.c # Normal THEN q ELSE Value(q, Expression(e.v))
            IN  made(Parser_consume(e, "SEMICOLON", "Expected ';' after expression."))
    IN  semicolon(Parser_method("expression", p))

Parser_printStatement(p) ==
    LET semicolon(e) ==
            LET made(q) == IF q.c # Normal THEN q ELSE Value(q, PrintStmt(e.v))
            IN  made(Parser_consume(e, "SEMICOLON", "Expected ';' after value."))
    IN  semicolon(Parser_method("expression", p))

Parser_returnStatement(p) ==
    LET semicolon(e) ==
            LET made(q) == IF q.c # Normal THEN q ELSE Value(q, Return(e.v))
            IN  made(Parser_consume(e, "SEMICOLON", "Expected ';' after return value."))
    IN  semicolon(IF ~Parser_check(p, "SEMICOLON") THEN Parser_method("expression", p)
                  ELSE Value(p, NoExpr))

Parser_varDeclaration(p) ==
    LET initializer(n) ==
            LET semicolon(e) ==
                    LET made(q) ==
                            IF q.c # Normal THEN q
                            ELSE Value(q, Var(Parser_previous(n).lexeme, e.v))
                    IN  made(Parser_consume(e, "SEMICOLON",
                                 "Expected ';' after variable declaration."))
            IN  IF n.c # Normal THEN n
                ELSE semicolon(IF Parser_match(n, {"EQUAL"}).matched
                               THEN Parser_method("expression", Parser_advance(n))
                               ELSE Value(n, NoExpr))
    IN  initializer(Parser_consume(p, "IDENTIFIER", "Expected variable name."))

Parser_whileStatement(p) ==
    LET condition(e) ==
            LET body(b) == IF b.c # Normal THEN b ELSE Value(b, While(e.v, b.v))
            IN  body(Parser_method("statement", 
                    Parser_consume(e, "RIGHT_PAREN", "Expected ')' after while condition.")))
    IN  condition(Parser_method("expression", 
            Parser_consume(p, "LEFT_PAREN", "Expected '(' after 'while'.")))

Parser_ifStatement(p) ==
    LET condition(e) ==
            LET thenBranch(t) ==
                    LET elseBranch(b) ==
                            IF b.c # Normal THEN b ELSE Value(b, If(e.v, t.v, b.v))
                    IN  IF t.c # Normal THEN t
                        ELSE elseBranch(IF Parser_match(t, {"ELSE"}).matched
                                        THEN Parser_method("statement", Parser_advance(t))
                                        ELSE Value(t, NoStmt))
            IN  thenBranch(Parser_method("statement", 
                    Parser_consume(e, "RIGHT_PAREN", "Expected ')' after if condition.")))
    IN  condition(Parser_method("expression", 
            Parser_consume(p, "LEFT_PAREN", "Expected '(' after 'if'.")))

\* initializer i, condition e and increment n are the states after the
\* clauses, their values NoStmt or NoExpr for a clause that is absent.
\* A lowering that runs the increment before the body.
Parser_desugarIncrementFirst(initializer, condition, increment, body) ==
    LET withIncrement ==
            IF increment # NoExpr THEN Block(<< Expression(increment), body >>) ELSE body
        loop == While(IF condition # NoExpr THEN condition ELSE Literal(Bool(TRUE)),
                      withIncrement)
    IN  IF initializer # NoStmt THEN Block(<< initializer, loop >>) ELSE loop

\* #forStatement, "work backwards to desugar the for-loop into a while-loop".
Parser_desugar(initializer, condition, increment, body) ==
    LET withIncrement ==
            IF increment # NoExpr THEN Block(<< body, Expression(increment) >>) ELSE body
        loop == While(IF condition # NoExpr THEN condition ELSE Literal(Bool(TRUE)),
                      withIncrement)
    IN  IF initializer # NoStmt THEN Block(<< initializer, loop >>) ELSE loop

Parser_forStatement(p) ==
    LET desugar(i, e, n, b) ==
            IF b.c # Normal THEN b ELSE Value(b, Parser_desugar(i.v, e.v, n.v, b.v))
        increment(i, e, n) ==
            desugar(i, e, n, Parser_method("statement",
                Parser_consume(n, "RIGHT_PAREN", "Expected ')' after for-loop clauses.")))
        semicolon(i, e, s) ==
            IF s.c # Normal THEN s
            ELSE increment(i, e, IF Parser_check(s, "RIGHT_PAREN") THEN Value(s, NoExpr)
                                 ELSE Parser_method("expression", s))
        condition(i, e) ==
            semicolon(i, e, Parser_consume(e, "SEMICOLON",
                                           "Expected ';' after for-loop condition."))
        initializer(i) ==
            IF i.c # Normal THEN i
            ELSE condition(i, IF Parser_check(i, "SEMICOLON") THEN Value(i, NoExpr)
                              ELSE Parser_method("expression", i))
        clauses(q) ==
            IF q.c # Normal THEN q
            ELSE IF Parser_match(q, {"SEMICOLON"}).matched
            THEN initializer(Value(Parser_advance(q), NoStmt))
            ELSE IF Parser_match(q, {"VAR"}).matched
            THEN initializer(Parser_method("varDeclaration", Parser_advance(q)))
            ELSE initializer(Parser_method("expressionStatement", q))
    IN  clauses(Parser_consume(p, "LEFT_PAREN", "Expected '(' after 'for'."))

Parser_block(p) ==
    LET RECURSIVE declarations(_, _)
        declarations(q, stmts) ==
            LET push(d) ==
                    declarations(d, IF d.v # NoStmt THEN Append(stmts, d.v) ELSE stmts)
            IN  IF q.c # Normal THEN q
                ELSE IF ~Parser_check(q, "RIGHT_BRACE") /\ ~Parser_isAtEnd(q)
                THEN push(Parser_method("declaration", q))
                ELSE Value(Parser_consume(q, "RIGHT_BRACE", "Expected '}' after block."),
                           stmts)
        brace(q) == IF q.c # Normal THEN Throw(q, q.c) ELSE q
    IN  brace(declarations(p, <<>>))

Parser_functionDeclaration(kind, p) ==
    LET body(n, a) ==
            LET made(b) ==
                    IF b.c # Normal THEN b
                    ELSE Value(b, FunctionDecl(Parser_previous(n).lexeme, a.v, b.v))
            IN  made(Parser_method("block", 
                    Parser_consume(
                        Parser_consume(a, "RIGHT_PAREN", "Expected ')' after parameters."),
                        "LEFT_BRACE", "Expected '{' before " \o kind \o " body.")))
        paren(n, q) ==
            IF q.c # Normal THEN q
            ELSE body(n, IF Parser_check(q, "RIGHT_PAREN") THEN Value(q, <<>>)
                         ELSE Parser_loop("parameters", q))
        name(n) == paren(n, Parser_consume(n, "LEFT_PAREN",
                                           "Expected '(' after " \o kind \o " name."))
    IN  name(Parser_consume(p, "IDENTIFIER", "Expected " \o kind \o " name."))

Parser_classDeclaration(p) ==
    LET RECURSIVE methods(_, _, _)
        methods(n, q, list) ==
            LET push(m) == methods(n, m, Append(list, m.v))
                made(b) == IF b.c # Normal THEN b
                           ELSE Value(b, Class(Parser_previous(n).lexeme, list))
            IN  IF q.c # Normal THEN q
                ELSE IF ~Parser_check(q, "RIGHT_BRACE") /\ ~Parser_isAtEnd(q)
                THEN push(Parser_functionDeclaration("method", q))
                ELSE made(Parser_consume(q, "RIGHT_BRACE", "Expected '}' after class body."))
        name(n) == methods(n, Parser_consume(n, "LEFT_BRACE",
                                             "Expected '{' before class body."), <<>>)
    IN  name(Parser_consume(p, "IDENTIFIER", "Expected class name."))

Parser_statement(p) ==
    LET type == Parser_peek(p).type
        block(b) == IF b.c # Normal THEN b ELSE Value(b, Block(b.v))
    IN  IF p.c # Normal THEN p
        ELSE CASE type = "FOR" -> Parser_method("forStatement", Parser_advance(p))
               [] type = "IF" -> Parser_method("ifStatement", Parser_advance(p))
               [] type = "PRINT" -> Parser_method("printStatement", Parser_advance(p))
               [] type = "RETURN" -> Parser_method("returnStatement", Parser_advance(p))
               [] type = "WHILE" -> Parser_method("whileStatement", Parser_advance(p))
               [] type = "LEFT_BRACE" -> block(Parser_method("block", Parser_advance(p)))
               [] OTHER -> Parser_method("expressionStatement", p)

\* try ... catch of #declaration: a ParseError is caught, the parser
\* synchronizes and the declaration returns undefined (NoStmt).
\* A #declaration whose catch clause does not synchronize.
Parser_declarationNotSynchronizing(p) ==
    LET type == Parser_peek(p).type
        returned(r) ==
            [r EXCEPT !.decls = Append(@, [start |-> p.current, end |-> r.current,
                                           stmt |-> r.v])]
        catch(r) ==
            IF r.c = ParseError THEN returned(Value([r EXCEPT !.c = Normal], NoStmt))
            ELSE IF r.c # Normal THEN r
            ELSE returned(r)
    IN  IF p.c # Normal THEN p
        ELSE CASE type = "CLASS" -> catch(Parser_method("classDeclaration", Parser_advance(p)))
               [] type = "FUN" ->
                      catch(Parser_functionDeclaration("function", Parser_advance(p)))
               [] type = "VAR" -> catch(Parser_method("varDeclaration", Parser_advance(p)))
               [] OTHER -> catch(Parser_method("statement", p))

Parser_declaration(p) ==
    LET type == Parser_peek(p).type
        returned(r) ==
            [r EXCEPT !.decls = Append(@, [start |-> p.current, end |-> r.current,
                                           stmt |-> r.v])]
        catch(r) ==
            IF r.c = ParseError
            THEN returned(Value(Parser_synchronize([r EXCEPT !.c = Normal]), NoStmt))
            ELSE IF r.c # Normal THEN r
            ELSE returned(r)
    IN  IF p.c # Normal THEN p
        ELSE CASE type = "CLASS" -> catch(Parser_method("classDeclaration", Parser_advance(p)))
               [] type = "FUN" ->
                      catch(Parser_functionDeclaration("function", Parser_advance(p)))
               [] type = "VAR" -> catch(Parser_method("varDeclaration", Parser_advance(p)))
               [] OTHER -> catch(Parser_method("statement", p))

\* One round of the loop of parse().
(* A call `this.#rule()` of one of the Parser's grammar methods: the method   *)
(* named is looked up on the parser and applied to it.                       *)
Parser_method(rule, p) ==
    CASE rule = "declaration" -> Parser_declaration(p)
      [] rule = "classDeclaration" -> Parser_classDeclaration(p)
      [] rule = "varDeclaration" -> Parser_varDeclaration(p)
      [] rule = "statement" -> Parser_statement(p)
      [] rule = "forStatement" -> Parser_forStatement(p)
      [] rule = "ifStatement" -> Parser_ifStatement(p)
      [] rule = "printStatement" -> Parser_printStatement(p)
      [] rule = "returnStatement" -> Parser_returnStatement(p)
      [] rule = "whileStatement" -> Parser_whileStatement(p)
      [] rule = "expressionStatement" -> Parser_expressionStatement(p)
      [] rule = "block" -> Parser_block(p)
      [] rule = "expression" -> Parser_expression(p)
      [] rule = "comma" -> Parser_comma(p)
      [] rule = "ternary" -> Parser_ternary(p)
      [] rule = "assignment" -> Parser_assignment(p)
      [] rule = "or" -> Parser_or(p)
      [] rule = "unary" -> Parser_unary(p)
      [] rule = "call" -> Parser_call(p)
      [] rule = "primary" -> Parser_primary(p)

Parser_parseDeclaration(p) ==
    LET push(d) ==
            IF d.c # Normal \/ d.v = NoStmt THEN d
            ELSE [d EXCEPT !.statements = Append(@, d.v)]
    IN  push(Parser_declaration(p))

RECURSIVE Parser_parse(_)
Parser_parse(p) ==
    IF p.c # Normal \/ Parser_isAtEnd(p) THEN p
    ELSE Parser_parse(Parser_parseDeclaration(p))

(***************************************************************************)
(* The state machine of a process: runFile, runPrompt and run (index.js),  *)
(* the loop of Interpreter.interpret, Interpreter.interpretExpression, and *)
(* the Reporter.                                                           *)
(***************************************************************************)
VARIABLES
    scanner,         \* the Scanner at work (ScannerSpec), else NoScanner
    parser,          \* the Parser at work (ParserSpec), else NoParser
    source,          \* the input: [prompt, lines]
    pc,              \* "start", "resolve", "interpret", "expression", "ran",
                     \* "exited", "crashed"
    line,            \* the position of runPrompt's loop in source.lines
    statements,      \* the statements returned by parser.parse()
    reporter,        \* the number of Reporters created so far
    hadError,        \* Reporter.#hadError of the current Reporter
    hadRuntimeError, \* Reporter.#hadRuntimeError of the current Reporter
    stderr,          \* the messages written by the Reporters, in order
    index,           \* the position of interpret's loop in statements
    exitCode,        \* the exit code of the process, 0 while none is set
    thrown,          \* the exception nothing has caught, Normal if none
    locals,          \* Interpreter: the map of hop counts
    envs,            \* all environments; envs[1] is Interpreter.#globals
    environment,     \* Interpreter.#environment
    instances,       \* all instances
    output,          \* the lines written to standard output
    trace,           \* instrumentation: the events of the interpreter
    nextInv          \* instrumentation: the number of the next invocation

vars == << scanner, parser, source, pc, line, statements, reporter, hadError, hadRuntimeError, stderr,
           index, exitCode, thrown, locals, envs, environment, instances, output,
           trace, nextInv >>

interpreterVars == << locals, envs, environment, instances, output, trace, nextInv >>

\* The exit code of a process that ends by an exception nothing catches:
\* main() is awaited at the top level of the module, outside any try.
UncaughtExitCode == 1

\* The environments after the constructor of the Interpreter.
InitialEnvs == define(<< Environment(NoEnv) >>, Interpreter_globals, "clock", ClockFunction)

\* No Scanner, no Parser: the model takes the texts as scanned and parsed.
NoScanner == [k |-> "none"]

NoParser == [k |-> "none"]

Init ==
    /\ scanner = NoScanner
    /\ parser = NoParser
    /\ source \in Sources
    /\ pc = "start"
    /\ line = 1
    /\ statements = <<>>
    /\ reporter = 1
    /\ hadError = FALSE
    /\ hadRuntimeError = FALSE
    /\ stderr = <<>>
    /\ index = 0
    /\ exitCode = 0
    /\ thrown = Normal
    /\ locals = EmptyMap
    /\ envs = InitialEnvs
    /\ environment = Interpreter_globals
    /\ instances = <<>>
    /\ output = <<>>
    /\ trace = <<>>
    /\ nextInv = 1

\* The state the visitors of the interpreter start from.
InterpreterState ==
    [envs |-> envs, environment |-> environment, locals |-> locals,
     instances |-> instances, output |-> output, trace |-> trace,
     c |-> Normal, v |-> Undefined, inv |-> 0, nextInv |-> nextInv, closure |-> NoEnv]

\* The text run() is given.
Text == source.lines[line]

\* run's test for the single-expression mode.
AllowSingleExpr == source.prompt /\ Text.single

\* run, first part: scan and parse; stop if there was a syntax error.
RunParse ==
    /\ pc = "start"
    /\ ~AllowSingleExpr
    /\ statements' = Text.stmts
    /\ hadError' = Text.syntaxError
    /\ stderr' = IF Text.syntaxError THEN Append(stderr, "Error: syntax") ELSE stderr
    /\ pc' = IF Text.syntaxError THEN "ran" ELSE "resolve"
    /\ UNCHANGED << scanner, parser, source, line, reporter, hadRuntimeError, index, exitCode, thrown,
                    interpreterVars >>

\* run at the prompt, a text without a semicolon: scan and parse it as one
\* expression; return if there is none or an error was reported.
RunParseExpression ==
    /\ pc = "start"
    /\ AllowSingleExpr
    /\ hadError' = Text.syntaxError
    /\ stderr' = IF Text.syntaxError THEN Append(stderr, "Error: syntax") ELSE stderr
    /\ pc' = IF Text.expr # NoExpr /\ ~Text.syntaxError THEN "expression" ELSE "ran"
    /\ UNCHANGED << scanner, parser, source, line, statements, reporter, hadRuntimeError, index,
                    exitCode, thrown, interpreterVars >>

\* The state of the Resolver after resolver.resolve(...statements).
Resolved == Resolver_resolve(statements, 1, [NewResolver EXCEPT !.locals = locals])

\* A run that interprets the statements although the resolver has reported
\* errors.
RunProceedsAnyway(errors) == TRUE

\* Whether run goes on after the resolver has reported the given errors.
RunProceeds(errors) == errors = <<>>

\* run, second part: resolve; stop if there was a resolution error.
RunResolve ==
    /\ pc = "resolve"
    /\ Resolved.thrown = Normal
    /\ locals' = Resolved.locals
    /\ hadError' = (hadError \/ Resolved.errors # <<>>)
    /\ stderr' = stderr \o Resolved.errors
    /\ index' = 1
    /\ pc' = IF RunProceeds(Resolved.errors) THEN "interpret" ELSE "ran"
    /\ UNCHANGED << scanner, parser, source, line, statements, reporter, hadRuntimeError, exitCode,
                    thrown, envs, environment, instances, output, trace, nextInv >>

\* The resolver throws an Error: nothing in run, runFile or runPrompt
\* catches it.
RunResolveThrows ==
    /\ pc = "resolve"
    /\ Resolved.thrown # Normal
    /\ locals' = Resolved.locals
    /\ hadError' = (hadError \/ Resolved.errors # <<>>)
    /\ stderr' = stderr \o Resolved.errors
    /\ pc' = "crashed"
    /\ thrown' = Resolved.thrown
    /\ exitCode' = UncaughtExitCode
    /\ UNCHANGED << scanner, parser, source, line, statements, reporter, hadRuntimeError, index, envs,
                    environment, instances, output, trace, nextInv >>

\* The state of the interpreter after executing the statement at index.
Executed == Interpreter_execute(statements[index], InterpreterState)

StoreInterpreter(st) ==
    /\ envs' = st.envs
    /\ environment' = st.environment
    /\ instances' = st.instances
    /\ output' = st.output
    /\ trace' = st.trace
    /\ nextInv' = st.nextInv

\* An interpret whose try is inside the loop: after the report, the loop
\* goes on with the next statement.
Interpreter_afterRuntimeErrorGoOn(i) == [pc |-> "interpret", index |-> i + 1]

\* Where interpret stands after the catch clause has reported the
\* RuntimeError of the statement at i: the try is around the loop, so the
\* loop is over and interpret returns.
Interpreter_afterRuntimeError(i) == [pc |-> "ran", index |-> i]

\* catch (error) of interpret and of interpretExpression: a RuntimeError
\* is reported; anything else is thrown again, and nothing in run, runFile
\* or runPrompt catches it.
Catch(st, after) ==
    /\ StoreInterpreter(st)
    /\ hadRuntimeError' = (hadRuntimeError \/ st.c.k = "RuntimeError")
    /\ stderr' = IF st.c.k = "RuntimeError" THEN Append(stderr, st.c.message)
                 ELSE stderr
    /\ pc' = IF st.c.k = "RuntimeError" THEN after ELSE "crashed"
    /\ thrown' = IF st.c.k = "RuntimeError" THEN thrown ELSE st.c
    /\ exitCode' = IF st.c.k = "RuntimeError" THEN exitCode ELSE UncaughtExitCode

\* interpret: one round of the loop, the statement completes.
InterpretStatement ==
    /\ pc = "interpret"
    /\ index <= Len(statements)
    /\ Executed.c = Normal
    /\ StoreInterpreter(Executed)
    /\ index' = index + 1
    /\ UNCHANGED << scanner, parser, source, pc, line, statements, reporter, hadError, hadRuntimeError,
                    stderr, exitCode, thrown, locals >>

\* interpret: the statement throws a RuntimeError; the catch clause reports
\* it and interpret returns.
InterpretRuntimeError ==
    /\ pc = "interpret"
    /\ index <= Len(statements)
    /\ Executed.c.k = "RuntimeError"
    /\ Catch(Executed, Interpreter_afterRuntimeError(index).pc)
    /\ index' = Interpreter_afterRuntimeError(index).index
    /\ UNCHANGED << scanner, parser, source, line, statements, reporter, hadError, locals >>

\* interpret: the statement throws something else, which interpret throws
\* again.
InterpretThrows ==
    /\ pc = "interpret"
    /\ index <= Len(statements)
    /\ Executed.c.k \notin {"normal", "RuntimeError"}
    /\ Catch(Executed, "ran")
    /\ UNCHANGED << scanner, parser, source, line, statements, reporter, hadError, index, locals >>

\* interpret: the loop is over, interpret and run return.
InterpretReturns ==
    /\ pc = "interpret"
    /\ index > Len(statements)
    /\ pc' = "ran"
    /\ UNCHANGED << scanner, parser, source, line, statements, reporter, hadError, hadRuntimeError,
                    stderr, index, exitCode, thrown, interpreterVars >>

\* The state of the interpreter after evaluating the expression of the
\* text: the resolver has not seen the expression.
Evaluated == Interpreter_evaluate(Text.expr, InterpreterState)

\* interpretExpression: the value of the expression is printed.
InterpretExpression ==
    /\ pc = "expression"
    /\ Evaluated.c = Normal
    /\ StoreInterpreter([Evaluated EXCEPT !.output =
           Append(@, stringify(Evaluated.v, Evaluated.instances))])
    /\ pc' = "ran"
    /\ UNCHANGED << scanner, parser, source, line, statements, reporter, hadError, hadRuntimeError,
                    stderr, index, exitCode, thrown, locals >>

\* interpretExpression: the expression throws.
InterpretExpressionThrows ==
    /\ pc = "expression"
    /\ Evaluated.c # Normal
    /\ Catch(Evaluated, "ran")
    /\ UNCHANGED << scanner, parser, source, line, statements, reporter, hadError, index, locals >>

\* The exit code runFile sets from the flags of the reporter.
RunFileExitCode(code, error, runtimeError) ==
    LET c1 == IF error THEN 65 ELSE code
    IN  IF runtimeError THEN 70 ELSE c1

\* runFile, after run has returned.
RunFileExit ==
    /\ pc = "ran"
    /\ ~source.prompt
    /\ exitCode' = RunFileExitCode(exitCode, hadError, hadRuntimeError)
    /\ pc' = "exited"
    /\ UNCHANGED << scanner, parser, source, line, statements, reporter, hadError, hadRuntimeError,
                    stderr, index, thrown, interpreterVars >>

\* runPrompt, after run has returned: the next line is read and run with a
\* new Reporter.
RunPromptLine ==
    /\ pc = "ran"
    /\ source.prompt
    /\ line < Len(source.lines)
    /\ line' = line + 1
    /\ reporter' = reporter + 1
    /\ hadError' = FALSE
    /\ hadRuntimeError' = FALSE
    /\ pc' = "start"
    /\ UNCHANGED << scanner, parser, source, statements, stderr, index, exitCode, thrown,
                    interpreterVars >>

\* runPrompt, after run has returned: the input is over, the loop ends.
RunPromptClose ==
    /\ pc = "ran"
    /\ source.prompt
    /\ line = Len(source.lines)
    /\ pc' = "exited"
    /\ UNCHANGED << scanner, parser, source, line, statements, reporter, hadError, hadRuntimeError,
                    stderr, index, exitCode, thrown, interpreterVars >>

Next ==
    \/ RunParse
    \/ RunParseExpression
    \/ RunResolve
    \/ RunResolveThrows
    \/ InterpretStatement
    \/ InterpretRuntimeError
    \/ InterpretThrows
    \/ InterpretReturns
    \/ InterpretExpression
    \/ InterpretExpressionThrows
    \/ RunFileExit
    \/ RunPromptLine
    \/ RunPromptClose

Spec == Init /\ [][Next]_vars

(***************************************************************************)
(* Properties.                                                             *)
(***************************************************************************)
\* The positions of the trace that hold an event of the given kind.
Events(kind) == { i \in 1..Len(trace) : trace[i].e = kind }

\* The run of the program has ended.
Final == pc \in {"exited", "crashed"}

\* The file p, parsed without an error, has been run to its end.
Ran(p) ==
    /\ ~source.prompt
    /\ source.lines = << StatementsLine(p, FALSE) >>
    /\ Final

\* The session of the given lines of the pool has been run to its end.
Session(ls) ==
    /\ source.prompt
    /\ source.lines = [i \in 1..Len(ls) |-> PromptPool[ls[i]]]
    /\ Final

CallsThatAllocated(env, i) ==
    { c \in Events("call") : c < i /\ trace[c].env = env }

\* C3. Closure state: every call of a user function gets an environment
\* that no earlier call, block or binding has, and whose parent is the
\* closure of the function; a captured variable that lives in the
\* environment of a call stays there after that call has returned, so the
\* counter of the scenario yields 1, 2, 3, ... on successive calls, and the
\* counter made by a second call of mk() has a variable of its own.
ClosureState ==
    /\ \A c \in Events("call") :
          /\ trace[c].parent = trace[c].closure
          /\ envs[trace[c].env].enclosing = trace[c].closure
          /\ trace[c].env > trace[c].closure
          /\ \A d \in Events("call") \cup Events("bind") :
                d # c => trace[d].env # trace[c].env
    /\ \A i, j \in Events("write") :
          ( /\ trace[i].node = trace[j].node
            /\ trace[i].closure = trace[j].closure
            /\ trace[i].closure # NoEnv
            /\ trace[i].env <= trace[i].closure
            /\ trace[j].env <= trace[j].closure )
          => trace[i].env = trace[j].env
    /\ Ran(ProgramCounter) =>
          /\ output = [n \in 1..(MaxIter + 1) |-> ToString(n)] \o << "1" >>
          /\ \A i, j \in Events("write") :
                trace[i].env = trace[j].env <=> trace[i].closure = trace[j].closure
          /\ \A i \in Events("write") :
                /\ CallsThatAllocated(trace[i].env, i) # {}
                /\ \E r \in Events("callret") :
                      r < i /\ trace[r].value = LoxFunction(
                          ProgramCounter[1].body[2], trace[i].env, FALSE)

\* The counter scenario has run: c() has written its i more than once, in
\* the environment of the first call of mk(), which had returned; d() has
\* written another i, in the environment of the second call of mk().
ClosureStateWitness ==
    /\ Ran(ProgramCounter)
    /\ \E i, j, k \in Events("write") :
          /\ i < j /\ j < k
          /\ trace[i].env = trace[j].env
          /\ trace[k].env # trace[i].env
          /\ trace[i].value = Num(1) /\ trace[j].value = Num(2)
          /\ trace[k].value = Num(1)
          /\ envs[trace[i].env].values["i"] = Num(MaxIter + 1)
          /\ envs[trace[k].env].values["i"] = Num(1)

\* C4. Init always returns the instance: a call of a class yields an
\* instance of that class that did not exist before the call, and a call
\* of an initializer, by the class or directly on an instance, yields the
\* instance its `this` is bound to, whether the body ran to its end or left
\* through a bare return; so in the scenario i.init(false) is i again, and
\* C(true), whose init returns early, is an instance without the late field.
InitReturnsInstance ==
    /\ \A n \in Events("new") :
          /\ trace[n].instance.t = "instance"
          /\ trace[n].instance.id = trace[n].before + 1
          /\ trace[n].instance.id \in 1..Len(instances)
          /\ instances[trace[n].instance.id].klass.name = trace[n].klass
          /\ \A m \in Events("new") :
                m # n => trace[m].instance # trace[n].instance
    /\ \A r \in Events("callret") :
          trace[r].isInitializer =>
             /\ trace[r].value.t = "instance"
             /\ trace[r].value = envs[trace[r].closure].values["this"]
    /\ Ran(ProgramInit) => output = << "true", "false", "ran", "ran" >>

\* The scenario has run: one initializer left through a bare return and
\* its call of the class yielded the new instance; another was called on
\* an existing instance, ran to its end and yielded that instance.
InitReturnsInstanceWitness ==
    /\ Ran(ProgramInit)
    /\ \E r \in Events("callret") :
          /\ trace[r].isInitializer
          /\ trace[r - 1].e = "return" /\ trace[r - 1].value = Nil
          /\ trace[r + 1].e = "new" /\ trace[r + 1].instance = trace[r].value
    /\ \E r \in Events("callret") :
          /\ trace[r].isInitializer
          /\ trace[r - 1].e # "return"
          /\ trace[r + 1].e # "new"
          /\ trace[r].value = InstanceRef(1)
    /\ Cardinality(Events("new")) = 2

\* C5. Method binding: reading a method from an instance allocates an
\* environment of its own, under the closure of the method, that holds
\* `this` = that instance from then on and is the closure of the bound
\* method; the closure of the unbound method never gets a `this`; every
\* read of `this` in a body yields the instance of the binding the body was
\* called through.  In the scenario the method bound to i prints i when it
\* is called as a field of j, through a parameter and through a variable,
\* also after the same method has been bound to j.
MethodBinding ==
    /\ \A b \in Events("bind") :
          /\ envs[trace[b].env].enclosing = trace[b].closure
          /\ envs[trace[b].env].values = MapSet(EmptyMap, "this", trace[b].instance)
          /\ "this" \notin DOMAIN envs[trace[b].closure].values
          /\ \A d \in Events("bind") \cup Events("call") :
                d # b => trace[d].env # trace[b].env
    /\ \A i \in Events("read") :
          trace[i].name = "this" =>
             /\ trace[i].env = trace[i].closure
             /\ \E b \in Events("bind") :
                   /\ b < i
                   /\ trace[b].env = trace[i].closure
                   /\ trace[b].instance = trace[i].value
    /\ Ran(ProgramBinding) => output = << "i", "i", "j", "i" >>

\* The scenario has run: who() was bound to i and later to j, under the
\* same closure, and a call made after the binding to j read `this` = i.
MethodBindingWitness ==
    /\ Ran(ProgramBinding)
    /\ \E b, d \in Events("bind") : \E i \in Events("read") :
          /\ b < d /\ d < i
          /\ trace[b].closure = trace[d].closure
          /\ trace[b].instance = InstanceRef(1)
          /\ trace[d].instance = InstanceRef(2)
          /\ instances[1].klass = instances[2].klass
          /\ trace[i].name = "this"
          /\ trace[i].closure = trace[b].env
          /\ trace[i].value = InstanceRef(1)

\* C6. Environment restore: whenever interpret or interpretExpression is
\* not running (before it, between two top-level statements, and after it
\* has returned or thrown, whatever blocks and calls the statement was in
\* when it completed, returned or failed) the current environment is the
\* globals; and when a call hands its value to the caller, the current
\* environment is the one the caller was in, whatever blocks of the body
\* the return signal went through.
EnvironmentRestored ==
    /\ environment = Interpreter_globals
    /\ \A r \in Events("callret") :
          \E c \in Events("call") :
             /\ c < r
             /\ trace[c].inv = trace[r].inv
             /\ trace[r].environment = trace[c].caller

\* A session has ended in which interpretExpression called a function
\* that failed with a runtime error inside a block of its body: the
\* environments of the call and of the block exist, the error was reported
\* and the current environment is the globals.
EnvironmentRestoredWitness ==
    /\ Session(<< 3, 4 >>)
    /\ hadRuntimeError
    /\ environment = Interpreter_globals
    /\ \E c \in Events("call") :
          /\ trace[c].caller = Interpreter_globals
          /\ Len(envs) > trace[c].env
          /\ envs[Len(envs)].enclosing = trace[c].env
          /\ "x" \in DOMAIN envs[Len(envs)].values

CompileErrorsSuppressExecution ==
    /\ [](hadError =>
            /\ pc \notin {"interpret", "expression"}
            /\ ~hadRuntimeError
            /\ ~source.prompt =>
                  output = <<>> /\ envs = InitialEnvs /\ trace = <<>>)
    /\ [][hadError' =>
            /\ output' = output
            /\ envs' = envs
            /\ environment' = environment
            /\ instances' = instances
            /\ trace' = trace
            /\ ~hadRuntimeError']_vars

\* A file whose second statement has a resolution error has been run: its
\* first statement, a print, was not executed, and the exit code is 65.
CompileErrorsSuppressExecutionWitness ==
    /\ Ran(ProgramThisOutside)
    /\ hadError
    /\ stderr = << "Can't use 'this' outside of class." >>
    /\ output = <<>>
    /\ envs = InitialEnvs
    /\ exitCode = 65

\* C9. Exit codes of a file run: when the process of a file has ended, its
\* exit code is 65 exactly when the Reporter holds a compile error, 70
\* exactly when it holds a runtime error, and 0 otherwise; the two flags
\* of a Reporter are never both set, and a flag that is set stays set as
\* long as the Reporter is the current one.
ExitCodes ==
    /\ []((Final /\ ~source.prompt) =>
            /\ exitCode = 65 <=> hadError
            /\ exitCode = 70 <=> hadRuntimeError
            /\ (~hadError /\ ~hadRuntimeError) => exitCode = 0)
    /\ [](~(hadError /\ hadRuntimeError))
    /\ [][reporter' = reporter =>
            /\ hadError => hadError'
            /\ hadRuntimeError => hadRuntimeError']_vars

\* C10. Runtime error abort: the step in which a statement of interpret
\* throws a RuntimeError adds one message to the error stream, sets the
\* runtime-error flag and ends interpret at that statement, and keeps what
\* was there before: the lines printed, the environments and their slots,
\* the instances; from then on, as long as the Reporter is the current
\* one, nothing is executed and nothing more is reported.
RuntimeErrorAbort ==
    /\ [](hadRuntimeError => pc \in {"ran", "exited"})
    /\ [][(pc = "interpret" /\ ~hadRuntimeError /\ hadRuntimeError') =>
            /\ Len(stderr') = Len(stderr) + 1
            /\ SubSeq(stderr', 1, Len(stderr)) = stderr
            /\ pc' = "ran"
            /\ index' = index
            /\ Len(output') >= Len(output)
            /\ SubSeq(output', 1, Len(output)) = output
            /\ Len(envs') >= Len(envs)
            /\ \A e \in 1..Len(envs) :
                  /\ envs'[e].enclosing = envs[e].enclosing
                  /\ DOMAIN envs[e].values \subseteq DOMAIN envs'[e].values
            /\ Len(instances') >= Len(instances)]_vars
    /\ [][(hadRuntimeError /\ reporter' = reporter) =>
            /\ hadRuntimeError'
            /\ UNCHANGED << stderr, output, envs, environment, instances, trace,
                            index >>]_vars

\* The file of the scenario has run: its third statement failed inside a
\* call inside a block, after two lines had been printed and a global had
\* been defined; one message was reported, the fourth statement was not
\* executed, and the exit code is 70.
RuntimeErrorAbortWitness ==
    /\ Ran(ProgramErrorDeep)
    /\ hadRuntimeError
    /\ Len(stderr) = 1
    /\ index = 3
    /\ Len(statements) = 4
    /\ output = << "1", "2" >>
    /\ envs[Interpreter_globals].values["a"] = Num(1)
    /\ Cardinality({ i \in Events("stmt") :
                        trace[i].inv = 0 /\ trace[i].k = "Print" }) = 1
    /\ exitCode = 70

\* The run has ended by a read of a variable that was declared without an
\* initializer and not assigned since.
UninitializedReadEnded ==
    /\ Final
    /\ \/ thrown # Normal /\ thrown.message = "Variable is not initialized."
       \/ stderr # <<>> /\ stderr[Len(stderr)] = "Variable is not initialized."

UninitializedGlobalReadReported ==
    Ran(ProgramUninitializedGlobal) =>
        /\ hadRuntimeError
        /\ stderr = << "Variable is not initialized." >>
        /\ output = << "before" >>
        /\ exitCode = 70

(***************************************************************************)
(* The Environment on its own: a chain of three environments (the globals, *)
(* a block in them, a block in that block) on which define, assign,        *)
(* assignAt and the Assign expression are called with every input.  trace  *)
(* holds the last call and thrown its completion.                          *)
(***************************************************************************)
EnvNames == {"a", "b"}

\* The values of the calls of define (Undefined: no value is passed) and
\* the values assigned.
EnvDefined == {Undefined, Num(1)}

EnvAssigned == {Num(2)}

\* The names assigned to: a slot of b changes by define only.
EnvAssignedNames == {"a"}

EnvChain == << Environment(NoEnv), Environment(1), Environment(2) >>

EnvInit ==
    /\ scanner = NoScanner
    /\ parser = NoParser
    /\ source = [prompt |-> FALSE, lines |-> <<>>]
    /\ pc = "environment"
    /\ line = 1
    /\ statements = <<>>
    /\ reporter = 1
    /\ hadError = FALSE
    /\ hadRuntimeError = FALSE
    /\ stderr = <<>>
    /\ index = 0
    /\ exitCode = 0
    /\ thrown = Normal
    /\ locals = EmptyMap
    /\ envs = EnvChain
    /\ environment = Interpreter_globals
    /\ instances = <<>>
    /\ output = <<>>
    /\ trace = <<>>
    /\ nextInv = 1

\* The call op has been made, with the completion c, and left the
\* environments es.
EnvCalled(op, c, es) ==
    /\ pc = "environment"
    /\ envs' = es
    /\ thrown' = c
    /\ trace' = << op >>
    /\ UNCHANGED << scanner, parser, source, pc, line, statements, reporter, hadError, hadRuntimeError,
                    stderr, index, exitCode, locals, environment, instances, output,
                    nextInv >>

EnvDefine ==
    \E env \in DOMAIN envs, name \in EnvNames, value \in EnvDefined :
        EnvCalled([e |-> "define", env |-> env, name |-> name, value |-> value],
                  Normal, define(envs, env, name, value))

EnvAssign ==
    \E env \in DOMAIN envs, name \in EnvAssignedNames, value \in EnvAssigned :
        LET called(r) ==
                EnvCalled([e |-> "assign", env |-> env, name |-> name, value |-> value],
                          r.c, r.envs)
        IN  called(assign(envs, env, name, value))

EnvAssignAt ==
    \E env \in DOMAIN envs, distance \in 0..(Len(envs) - 1),
       name \in EnvAssignedNames, value \in EnvAssigned :
        LET called(r) ==
                EnvCalled([e |-> "assignAt", env |-> env, distance |-> distance,
                           name |-> name, value |-> value],
                          r.c, r.envs)
        IN  called(assignAt(envs, env, distance, name, value))

\* The expression name = value, evaluated in the environment env by an
\* interpreter whose resolver has given the node the hop count of hops
\* (none when hops is empty).
EnvVisitAssign ==
    \E env \in DOMAIN envs, hops \in {EmptyMap} \cup {[n \in {1} |-> d] : d \in 0..1},
       name \in EnvAssignedNames, value \in EnvAssigned :
        LET called(r) ==
                EnvCalled([e |-> "visitAssign", env |-> env, hops |-> hops,
                           name |-> name, value |-> value, result |-> r.v],
                          r.c, r.envs)
        IN  called(Interpreter_visitAssign(
                       Assign(1, name, Literal(value)),
                       [InterpreterState EXCEPT !.environment = env, !.locals = hops]))

EnvNext == EnvDefine \/ EnvAssign \/ EnvAssignAt \/ EnvVisitAssign

EnvSpec == EnvInit /\ [][EnvNext]_vars

\* The three states of the slot of name in the environment env of es.
SlotAbsent(es, env, name) == name \notin DOMAIN es[env].values

SlotUninitialized(es, env, name) ==
    /\ name \in DOMAIN es[env].values
    /\ es[env].values[name] = UNINITIALIZED

SlotValue(es, env, name) ==
    /\ name \in DOMAIN es[env].values
    /\ es[env].values[name] \notin {Undefined, UNINITIALIZED}

\* The slots of es and of fs are the same, but for the slot of name in env.
SameSlotsBut(es, fs, env, name) ==
    /\ Len(fs) = Len(es)
    /\ \A i \in DOMAIN es :
        /\ fs[i].enclosing = es[i].enclosing
        /\ \A n \in EnvNames \cup DOMAIN es[i].values \cup DOMAIN fs[i].values :
               (i # env \/ n # name) =>
                   MapGet(fs[i].values, n) = MapGet(es[i].values, n)

\* The environments es and fs have the same slots (the values in them may
\* differ).
SameDomains(es, fs) ==
    /\ Len(fs) = Len(es)
    /\ \A i \in DOMAIN es : DOMAIN fs[i].values = DOMAIN es[i].values

\* C12. Three-state slots: after any sequence of define, assign and
\* assignAt on a chain of environments, every name is in every environment
\* in exactly one of the states absent, uninitialized, with a value; define
\* without a value leaves the slot uninitialized, define with a value leaves
\* it with that value (whatever it was before), in the environment it is
\* called on and in no other; assign turns an uninitialized slot into one
\* with the value and creates no slot anywhere.
ThreeStateSlots ==
    /\ [](pc = "environment" =>
            \A env \in DOMAIN envs, name \in EnvNames :
                /\ \/ SlotAbsent(envs, env, name)
                   \/ SlotUninitialized(envs, env, name)
                   \/ SlotValue(envs, env, name)
                /\ ~(SlotAbsent(envs, env, name) /\ SlotUninitialized(envs, env, name))
                /\ ~(SlotAbsent(envs, env, name) /\ SlotValue(envs, env, name))
                /\ ~(SlotUninitialized(envs, env, name) /\ SlotValue(envs, env, name))
                /\ SlotAbsent(envs, env, name) <=>
                       MapGet(envs[env].values, name) = Undefined)
    /\ [][(pc = "environment" /\ trace'[1].e = "define") =>
            LET op == trace'[1]
            IN  /\ thrown' = Normal
                /\ op.value = Undefined => SlotUninitialized(envs', op.env, op.name)
                /\ op.value # Undefined =>
                       /\ SlotValue(envs', op.env, op.name)
                       /\ envs'[op.env].values[op.name] = op.value
                /\ SameSlotsBut(envs, envs', op.env, op.name)]_vars
    /\ [][(pc = "environment" /\ trace'[1].e = "assign") =>
            LET op == trace'[1]
                h == holder(envs, op.env, op.name)
            IN  /\ SameDomains(envs, envs')
                /\ (h # NoEnv /\ SlotUninitialized(envs, h, op.name)) =>
                       /\ thrown' = Normal
                       /\ SlotValue(envs', h, op.name)
                       /\ envs'[h].values[op.name] = op.value
                       /\ SameSlotsBut(envs, envs', h, op.name)]_vars

\* An assign from the innermost environment has given a value to a slot of
\* the globals that a define without a value had made; a define has
\* replaced a value that was assigned; other slots are uninitialized or
\* absent.
ThreeStateSlotsWitness ==
    /\ pc = "environment"
    /\ trace = << [e |-> "assign", env |-> 3, name |-> "a", value |-> Num(2)] >>
    /\ thrown = Normal
    /\ SlotValue(envs, 1, "a") /\ envs[1].values["a"] = Num(2)
    /\ SlotAbsent(envs, 2, "a") /\ SlotAbsent(envs, 3, "a")
    /\ SlotUninitialized(envs, 2, "b")
    /\ SlotValue(envs, 3, "b") /\ envs[3].values["b"] = Num(1)
    /\ SlotAbsent(envs, 1, "b")

ShortCircuits(l) ==
    \/ l.operator = "OR" /\ l.value \notin {Nil, Bool(FALSE)}
    \/ l.operator = "AND" /\ l.value \in {Nil, Bool(FALSE)}

\* C14. Short-circuit: when the left operand of or is truthy, or the left
\* operand of and is false or nil, the expression has the value of the left
\* operand at once: the right operand is not evaluated, nothing it would do
\* happens (no call, no write, no line printed); otherwise the right
\* operand is evaluated once, after the left one, and gives the value.
\* Only false and nil are falsy: 0 and "" decide like true.
ShortCircuit ==
    /\ \A i \in Events("logical") :
          ShortCircuits(trace[i]) =>
              /\ i < Len(trace)
              /\ trace[i + 1] = [e |-> "logicalEnd", left |-> i, value |-> trace[i].value]
    /\ \A j \in Events("logicalEnd") :
          /\ trace[j].left < j
          /\ trace[trace[j].left].e = "logical"
          /\ \A k \in Events("logicalEnd") : trace[k].left = trace[j].left => k = j
    /\ \A left \in LogicalLefts, operator \in {"OR", "AND"}, right \in LogicalRights :
          (Final /\ Ran(ProgramLogical(left, operator, right))) =>
              LET short == IF operator = "OR" THEN left \notin {Nil, Bool(FALSE)}
                           ELSE left \in {Nil, Bool(FALSE)}
              IN  /\ short =>
                        /\ output = << stringify(left, instances), "0" >>
                        /\ Events("call") = {}
                        /\ Events("write") = {}
                  /\ (~short /\ right.k = "Call") =>
                        /\ output = << "f", "1", "1" >>
                        /\ Cardinality(Events("call")) = 1
                        /\ Cardinality(Events("write")) = 1
                  /\ (~short /\ right.k = "Assign") =>
                        /\ output = << "5", "5" >>
                        /\ Events("call") = {}
                        /\ Cardinality(Events("write")) = 1
                  /\ \A c \in Events("call") \cup Events("write") :
                        \E i \in Events("logical"), j \in Events("logicalEnd") :
                            trace[j].left = i /\ i < c /\ c < j
    /\ Ran(ProgramShortCircuit) =>
          output = << "f", "1", "nil", "f", "2", "f", "8", "8" >>

\* `0 or f()` has been run: 0 was printed and f was not called; the
\* variable f would have changed still has its first value.
ShortCircuitWitness ==
    /\ Ran(ProgramLogical(Num(0), "OR", Call(Variable(5, "f"), <<>>)))
    /\ output = << "0", "0" >>
    /\ Events("call") = {}
    /\ \E i \in Events("logical") : ShortCircuits(trace[i]) /\ trace[i].value = Num(0)
    /\ envs[Interpreter_globals].values["a"] = Num(0)

\* The values a run of ProgramEquality compares: those of its globals, and
\* the numbers that are not integers.
EqualityValues ==
    { envs[Interpreter_globals].values[n] : n \in DOMAIN envs[Interpreter_globals].values }
        \cup { Nil, Bool(TRUE), Bool(FALSE), Num(0), Num(1), Str(""), Str("0"),
               NaN, Infinity, NegativeInfinity }

\* C15. Equality: == is reflexive for every value, NaN included, so that
\* (0/0) == (0/0) is true; it is symmetric; it is false for two values of
\* different types (nil and 0, nil and false, a number and a string); !=
\* is the negation of == for every pair; neither raises a runtime error.
Equality ==
    /\ \A x, y \in DOMAIN EqualityOperands :
          (Final /\ Ran(ProgramEquality(x, y))) =>
              LET equal == /\ EqualityOperands[x].key = EqualityOperands[y].key
                           /\ EqualityOperands[x].key # "none"
                  text(b) == IF b THEN "true" ELSE "false"
              IN  /\ output = << text(equal), text(~equal), text(equal) >>
                  /\ ~hadRuntimeError
                  /\ stderr = <<>>
                  /\ exitCode = 0
    /\ (Final /\ \E x, y \in DOMAIN EqualityOperands : Ran(ProgramEquality(x, y))) =>
          \A v, w \in EqualityValues :
              /\ isEqual(v, v)
              /\ isEqual(v, w) <=> isEqual(w, v)
              /\ v.t # w.t => ~isEqual(v, w)

\* (0/0) == (0/0) has been printed as true, (0/0) != (0/0) as false.
EqualityWitness ==
    /\ Ran(ProgramEquality(10, 10))
    /\ output = << "true", "false", "true" >>
    /\ exitCode = 0

(***************************************************************************)
(* The Scanner on its own: scanTokens on every source of at most           *)
(* MaxSourceLen characters of ScannerAlphabet and on the sources of        *)
(* ScannerCorpus, one round of its loop at a time.                         *)
(***************************************************************************)
MaxSourceLen == 4

ScannerAlphabet == {"a", "1", ".", "\"", "\n", "/", "=", "@", " "}

\* Sources with every kind of token:
\*   var x1 = 1.50; // c @ <newline> "s <newline> tr" != <= (or) orchid {constructor}
\*   a.b(1, 2) >= -3 * 4 + 5 / 6 < 7 > !true == nil; <tab> <cr> <newline> // end
\*   1. <newline> 12.a "@ // " // " <newline> "un <newline> terminated
ScannerCorpus ==
    {
       << "v", "a", "r", " ", "x", "1", " ", "=", " ", "1", ".", "5", "0",
          ";", " ", "/", "/", " ", "c", " ", "@", "\n", "\"", "s", "\n", "t",
          "r", "\"", " ", "!", "=", " ", "<", "=", " ", "(", "o", "r", ")",
          " ", "o", "r", "c", "h", "i", "d", " ", "{", "c", "o", "n", "s",
          "t", "r", "u", "c", "t", "o", "r", "}" >>,
       << "a", ".", "b", "(", "1", ",", " ", "2", ")", " ", ">", "=", " ",
          "-", "3", " ", "*", " ", "4", " ", "+", " ", "5", " ", "/", " ",
          "6", " ", "<", " ", "7", " ", ">", " ", "!", "t", "r", "u", "e",
          " ", "=", "=", " ", "n", "i", "l", ";", "\t", "\r", "\n", "/", "/",
          " ", "e", "n", "d" >>,
       << "1", ".", "\n", "1", "2", ".", "a", " ", "\"", "@", " ", "/", "/",
          " ", "\"", " ", "/", "/", " ", "\"", "\n", "\"", "u", "n", "\n",
          "t", "e", "r", "m", "i", "n", "a", "t", "e", "d" >>
    }

\* Sources of one lexeme [A-Za-z_][A-Za-z0-9_]*: the reserved words, words
\* with a reserved word as a proper prefix, other names, and names of
\* properties of Object.prototype.
IdentifierSources ==
    { << "a", "n", "d" >>,
      << "c", "l", "a", "s", "s" >>,
      << "e", "l", "s", "e" >>,
      << "f", "a", "l", "s", "e" >>,
      << "f", "o", "r" >>,
      << "f", "u", "n" >>,
      << "i", "f" >>,
      << "n", "i", "l" >>,
      << "o", "r" >>,
      << "p", "r", "i", "n", "t" >>,
      << "r", "e", "t", "u", "r", "n" >>,
      << "s", "u", "p", "e", "r" >>,
      << "t", "h", "i", "s" >>,
      << "t", "r", "u", "e" >>,
      << "v", "a", "r" >>,
      << "w", "h", "i", "l", "e" >>,
      << "o", "r", "c", "h", "i", "d" >>,
      << "c", "l", "a", "s", "s", "y" >>,
      << "f", "o", "r", "t", "u", "n", "e" >>,
      << "t", "h", "i", "s", "x" >>,
      << "_" >>,
      << "a", "_", "1" >>,
      << "I", "f" >>,
      << "c", "o", "n", "s", "t", "r", "u", "c", "t", "o", "r" >>,
      << "t", "o", "S", "t", "r", "i", "n", "g" >>,
      << "v", "a", "l", "u", "e", "O", "f" >>,
      << "h", "a", "s", "O", "w", "n", "P", "r", "o", "p", "e", "r", "t", "y" >>,
      << "_", "_", "p", "r", "o", "t", "o", "_", "_" >> }

ScannerSources ==
    UNION { [1..n -> ScannerAlphabet] : n \in 0..MaxSourceLen } \cup ScannerCorpus
        \cup IdentifierSources

\* The variables of run(), at rest while a Scanner or a Parser is checked on
\* its own.
Idle(part) ==
    /\ source = [prompt |-> FALSE, lines |-> <<>>]
    /\ pc = part
    /\ line = 1
    /\ statements = <<>>
    /\ reporter = 1
    /\ hadError = FALSE
    /\ hadRuntimeError = FALSE
    /\ stderr = <<>>
    /\ index = 0
    /\ exitCode = 0
    /\ thrown = Normal
    /\ locals = EmptyMap
    /\ envs = InitialEnvs
    /\ environment = Interpreter_globals
    /\ instances = <<>>
    /\ output = <<>>
    /\ trace = <<>>
    /\ nextInv = 1

runVars ==
    << source, line, statements, reporter, hadError, hadRuntimeError, stderr, index,
       exitCode, thrown, locals, envs, environment, instances, output, trace, nextInv >>

ScannerInit ==
    /\ Idle("run")
    /\ scanner = NoScanner
    /\ parser = NoParser

\* new Scanner(source, reporter), for any source.
ScanNew ==
    /\ pc = "run"
    /\ \E text \in ScannerSources : scanner' = Scanner(text)
    /\ pc' = "scanning"
    /\ UNCHANGED << parser, runVars >>

\* One round of the loop of scanTokens.
ScanToken ==
    /\ pc = "scanning"
    /\ ~Scanner_isAtEnd(scanner)
    /\ scanner' = Scanner_scanToken([scanner EXCEPT !.start = scanner.current])
    /\ UNCHANGED << parser, pc, runVars >>

\* The end of scanTokens.
ScanEnd ==
    /\ pc = "scanning"
    /\ Scanner_isAtEnd(scanner)
    /\ scanner' = Scanner_scanTokens(scanner)
    /\ pc' = "scanned"
    /\ UNCHANGED << parser, runVars >>

ScannerNext == ScanNew \/ ScanToken \/ ScanEnd

ScannerSpec == ScannerInit /\ [][ScannerNext]_vars

(***************************************************************************)
(* The Scanner under fairness, on the sources of at most MaxFairLen        *)
(* characters of FairAlphabet: the loop of scanTokens runs on its own,     *)
(* nothing but the end of the source stops it.                             *)
(***************************************************************************)
MaxFairLen == 3

FairAlphabet == {"a", "\"", "\n", "/", "@", " "}

FairSources ==
    UNION { [1..n -> FairAlphabet] : n \in 0..MaxFairLen }

\* new Scanner(source, reporter), for any of the sources of FairSources.
ScanNewFair ==
    /\ pc = "run"
    /\ \E text \in FairSources : scanner' = Scanner(text)
    /\ pc' = "scanning"
    /\ UNCHANGED << parser, runVars >>

ScannerFairNext == ScanNewFair \/ ScanToken \/ ScanEnd

ScannerFairSpec ==
    ScannerInit /\ [][ScannerFairNext]_vars /\ WF_vars(ScannerFairNext)

\* The number of the line of the character at index i of the source (the
\* line after the last one when i is the length of the source).
LineOf(text, i) == 1 + Cardinality({k \in 1..i : text[k] = "\n"})

\* C16. Scanner round-trip: the lexeme of every token is the substring
\* source[start, current) of the source, the tokens come in the order of
\* the source and do not overlap, and the line of every token is the line
\* of the first character of its lexeme, also when the token is a string
\* literal that spans several lines.
ScannerRoundTrip ==
    pc \in {"scanning", "scanned"} =>
        \A i \in DOMAIN scanner.tokens :
            LET token == scanner.tokens[i]
                span == scanner.spans[i]
            IN  /\ 0 <= span[1] /\ span[1] <= span[2] /\ span[2] <= Len(scanner.source)
                /\ token.lexeme = Join(SubSeq(scanner.source, span[1] + 1, span[2]))
                /\ i > 1 => scanner.spans[i - 1][2] <= span[1]
                /\ token.line = LineOf(scanner.source, span[1])

\* What holds of C16 in the code: the lexemes, their order, and the line of
\* the last character of each lexeme.
ScannerLexemes ==
    pc \in {"scanning", "scanned"} =>
        \A i \in DOMAIN scanner.tokens :
            LET token == scanner.tokens[i]
                span == scanner.spans[i]
            IN  /\ 0 <= span[1] /\ span[1] <= span[2] /\ span[2] <= Len(scanner.source)
                /\ token.lexeme = Join(SubSeq(scanner.source, span[1] + 1, span[2]))
                /\ i > 1 => scanner.spans[i - 1][2] <= span[1]
                /\ token.type # "EOF" => span[1] < span[2]
                /\ token.line = LineOf(scanner.source,
                                        IF token.type = "EOF" THEN span[2] ELSE span[2] - 1)
                /\ token.type # "STRING" => token.line = LineOf(scanner.source, span[1])

\* A character with which no token, no white space, no comment and no
\* string begins.
UnknownCharacter(c) ==
    /\ ~isAlphaNumeric(c)
    /\ c \notin {"(", ")", "{", "}", ",", ".", "-", "+", ";", "*", "!", "=", "<", ">",
                 "/", " ", "\r", "\t", "\n", "\""}

\* The source with a space in the place of every character that was
\* reported as unexpected.
WithoutUnknown(s) ==
    [i \in 1..Len(s.source) |->
        IF \E k \in DOMAIN s.errors :
              /\ s.errorStarts[k] = i - 1
              /\ s.errors[k].message # "Unterminated string."
        THEN " " ELSE s.source[i]]

\* Every round of the loop of scanTokens consumes at least one character;
\* an unknown character and an unterminated string are reported, and the
\* round that reports adds no token.
ScannerRounds ==
    [][(pc = "scanning" /\ pc' = "scanning") =>
            /\ scanner'.current > scanner.current
            /\ scanner'.current <= Len(scanner.source)
            /\ LET c == scanner.source[scanner.current + 1]
                   rest == SubSeq(scanner.source, scanner.current + 2, Len(scanner.source))
               IN  /\ UnknownCharacter(c) =>
                          /\ scanner'.errors =
                                Append(scanner.errors,
                                       [line |-> scanner.line,
                                        message |-> "Unexpected character: '" \o c \o "'"])
                          /\ scanner'.tokens = scanner.tokens
                          /\ scanner'.current = scanner.current + 1
                   /\ (c = "\"" /\ \A k \in DOMAIN rest : rest[k] # "\"") =>
                          /\ scanner'.errors =
                                Append(scanner.errors,
                                       [line |-> LineOf(scanner.source, Len(scanner.source)),
                                        message |-> "Unterminated string."])
                          /\ scanner'.tokens = scanner.tokens
                          /\ scanner'.current = Len(scanner.source)
                   /\ Len(scanner'.errors) > Len(scanner.errors) =>
                          scanner'.tokens = scanner.tokens]_vars

\* The tokens scanTokens returns: EOF is the last and no other, on line 1 +
\* the number of newlines; they are the tokens of the source with a space
\* in the place of each unknown character, which has no errors but those of
\* unterminated strings.
ScannerReturns ==
    [](pc = "scanned" =>
            LET tokens == scanner.tokens
            IN  /\ tokens # <<>>
                /\ tokens[Len(tokens)] =
                       Token("EOF", "", Nil, LineOf(scanner.source, Len(scanner.source)))
                /\ \A i \in 1..(Len(tokens) - 1) : tokens[i].type # "EOF"
                /\ Scanner_scanTokens(Scanner(WithoutUnknown(scanner))).tokens = tokens
                /\ Scanner_scanTokens(Scanner(WithoutUnknown(scanner))).errors =
                       SelectSeq(scanner.errors,
                                 LAMBDA e : e.message = "Unterminated string."))

\* C17. Scanner completion: scanTokens ends on every source; each round of
\* its loop consumes at least one character; the last token and no other
\* is EOF, on line 1 + the number of newlines of the source; an unknown
\* character and an unterminated string are each reported once, with no
\* token added, and the scan goes on; the tokens are those of the source
\* with a space in the place of each unknown character.
ScannerCompletion ==
    /\ <>(pc = "scanned")
    /\ ScannerRounds
    /\ ScannerReturns

\* The scan of  @"<newline>  has ended: EOF on line 2 is the only token,
\* the unknown character and the unterminated string are reported.
ScannerCompletionWitness ==
    /\ pc = "scanned"
    /\ scanner.source = << "@", "\"", "\n" >>
    /\ scanner.tokens = << Token("EOF", "", Nil, 2) >>
    /\ scanner.errors = << [line |-> 1, message |-> "Unexpected character: '@'"],
                           [line |-> 2, message |-> "Unterminated string."] >>

(***************************************************************************)
(* The Parser at work on the tokens of the Scanner (run, index.js).  The   *)
(* texts are sequences of words; the Scanner makes the tokens of each      *)
(* word.  The Scanner of src/ has no case for '?' and ':': the tokens of   *)
(* these two words are those the specification describes.                  *)
(***************************************************************************)
\* The letters of the names of the parameters of the long functions.
ParamLetters ==
    << "A", "B", "C", "D", "E", "F", "G", "H", "I", "J", "K", "L", "M", "N", "O", "P", "Q" >>

\* The name of the i-th parameter: two letters.
ParamChars(i) ==
    << ParamLetters[((i - 1) \div Len(ParamLetters)) + 1],
       ParamLetters[((i - 1) % Len(ParamLetters)) + 1] >>

ParamWord(i) == ParamChars(i)[1] \o ParamChars(i)[2]

ParamSpelling ==
    LET numbers == 1..(Len(ParamLetters) * Len(ParamLetters))
    IN  [word \in { ParamWord(i) : i \in numbers } |->
            ParamChars(CHOOSE i \in numbers : ParamWord(i) = word)]

\* The characters of a word; a word of one character is its own spelling.
Spell(word) ==
    CASE word = "print" -> << "p", "r", "i", "n", "t" >>
      [] word = "var" -> << "v", "a", "r" >>
      [] word = "fun" -> << "f", "u", "n" >>
      [] word = "class" -> << "c", "l", "a", "s", "s" >>
      [] word = "if" -> << "i", "f" >>
      [] word = "else" -> << "e", "l", "s", "e" >>
      [] word = "while" -> << "w", "h", "i", "l", "e" >>
      [] word = "for" -> << "f", "o", "r" >>
      [] word = "return" -> << "r", "e", "t", "u", "r", "n" >>
      [] word = "true" -> << "t", "r", "u", "e" >>
      [] word = "false" -> << "f", "a", "l", "s", "e" >>
      [] word = "nil" -> << "n", "i", "l" >>
      [] word = "this" -> << "t", "h", "i", "s" >>
      [] word = "and" -> << "a", "n", "d" >>
      [] word = "or" -> << "o", "r" >>
      [] word = "==" -> << "=", "=" >>
      [] word = "\"y\"" -> << "\"", "y", "\"" >>
      [] word = "\"n\"" -> << "\"", "n", "\"" >>
      [] word = "\"m\"" -> << "\"", "m", "\"" >>
      [] word \in DOMAIN ParamSpelling -> ParamSpelling[word]
      [] OTHER -> << word >>

\* The token of '?' or ':'.
Scanner_ternaryToken(word) ==
    Token(IF word = "?" THEN "QUESTION" ELSE "COLON", word, Nil, 1)

\* The tokens of a word, without the EOF token.
WordTokens(word) ==
    LET scanned == Scanner_scanTokens(Scanner(Spell(word))).tokens
    IN  IF word \in {"?", ":"} THEN << Scanner_ternaryToken(word) >>
        ELSE SubSeq(scanned, 1, Len(scanned) - 1)

\* The tokens of the words from lo to hi: those of the first half, then
\* those of the second.
RECURSIVE ScannedWords(_, _, _)
ScannedWords(words, lo, hi) ==
    IF lo > hi THEN <<>>
    ELSE IF lo = hi THEN WordTokens(words[lo])
    ELSE ScannedWords(words, lo, (lo + hi) \div 2)
             \o ScannedWords(words, ((lo + hi) \div 2) + 1, hi)

\* const tokens = new Scanner(source, reporter).scanTokens()
Scanned(words) ==
    ScannedWords(words, 1, Len(words)) \o Scanner_scanTokens(Scanner(<<>>)).tokens

\* Reporter.error(token, message): the line written to standard error.
Reporter_errorAtToken(token, message) ==
    "[line " \o ToString(token.line) \o "] Error"
        \o (IF token.type = "EOF" THEN " at end" ELSE " at '" \o token.lexeme \o "'")
        \o ": " \o message

\* Longest text made of the words of ParserWords.
MaxWords == 4

ParserWords == {"print", "var", "a", "1", "=", ";", "{", "}"}

\* Longest chain of ternaries.
MaxChain == 3

\* The operands of the chains of ternaries: the words, the expression they
\* are, for a condition whether it is truthy, for a branch what it prints.
ChainConditions ==
    { [words |-> << "true" >>, expr |-> Literal(Bool(TRUE)), truthy |-> TRUE],
      [words |-> << "false" >>, expr |-> Literal(Bool(FALSE)), truthy |-> FALSE],
      [words |-> << "!", "nil" >>, expr |-> Unary("BANG", Literal(Nil)), truthy |-> TRUE],
      [words |-> << "nil", "and", "1" >>,
       expr |-> Logical(Literal(Nil), "AND", Literal(Num(1))), truthy |-> FALSE] }

ChainBranches ==
    << [words |-> << "\"y\"" >>, expr |-> Literal(Str("y")), prints |-> "y"],
       [words |-> << "\"n\"" >>, expr |-> Literal(Str("n")), prints |-> "n"],
       [words |-> << "2", "+", "2" >>,
        expr |-> Binary(Literal(Num(2)), "PLUS", Literal(Num(2))), prints |-> "4"] >>

ChainElse == [words |-> << "\"m\"" >>, expr |-> Literal(Str("m")), prints |-> "m"]

\* The chains: the conditions A, C1, ..., C(n-1) of n ternaries.
Chains == UNION { [1..n -> ChainConditions] : n \in 1..MaxChain }

\* A ? B1 : C1 ? B2 : ... : Cn, from the i-th condition on.
RECURSIVE ChainFrom(_, _)
ChainFrom(chain, i) ==
    chain[i].words \o << "?" >> \o ChainBranches[i].words \o << ":" >>
        \o (IF i = Len(chain) THEN ChainElse.words ELSE ChainFrom(chain, i + 1))

\* print A ? B1 : C1 ? B2 : ... : Cn ;
ChainWords(chain) == << "print" >> \o ChainFrom(chain, 1) \o << ";" >>

ParserCorpus ==
    { << "{", "print", "1", "}", "var", "a", ";" >>,
      << "print", "1", "var", "a", ";", "print", "2", ";" >>,
      << "if", "(", "a", ")", "print", ";", "else", "print", "2", ";",
         "var", "a", "=", "1", ";" >>,
      << "(", "a", ")", "=", "1", ",", "a", ".", "b", "=", "2", ";", "print", "3", ";" >>,
      << "a", "+", "b", "=", "c", "=", "1", ";", "print", "a", "(", ")", "=", "2", ";",
         "this", "=", "3", ";" >>,
      << "var", "a", "=", "1", ";", "a", "=", "a", "+", "1", ";", "print", "a", ";" >>,
      << "for", "(", "var", "i", "=", "0", ";", "i", "<", "2", ";", "i", "=", "i", "+", "1",
         ")", "print", "i", ";" >>,
      << "fun", "f", "(", "a", ",", "b", ")", "{", "while", "(", "a", ")", "return", "b",
         ";", "return", ";", "}", "class", "A", "{", "m", "(", ")", "{", "print", "this",
         ";", "}", "}", "print", "f", "(", "1", ",", "A", "(", ")", ".", "m", ")", ";" >>,
      << "class", "A", "{", "m", "(", ")", "{", "print", "1", "}", "}", "var", "a", ";",
         "print", "2", ";" >>,
      << "fun", "(", ")", "{", "}", "print", "1", ";", "{", "var", "=", ";", "print",
         "2", ";", "}" >> }

\* The for loops: with no initializer, an expression or a declaration; with
\* or without a condition; with or without an increment.
ForCases == [init : {"none", "expression", "var"}, cond : BOOLEAN, incr : BOOLEAN]

\* fun f() { var i = 0; for (INIT COND; INCR) { print i; ... } print i; } f();
\* The body returns at i == 2 when the loop has no condition, and adds one
\* to i itself when the loop has no increment.
ForWords(case) ==
    << "fun", "f", "(", ")", "{", "var", "i", "=", "0", ";", "for", "(" >>
        \o (CASE case.init = "none" -> << ";" >>
              [] case.init = "expression" -> << "i", "=", "1", ";" >>
              [] case.init = "var" -> << "var", "i", "=", "1", ";" >>)
        \o (IF case.cond THEN << "i", "<", "3" >> ELSE <<>>) \o << ";" >>
        \o (IF case.incr THEN << "i", "=", "i", "+", "1" >> ELSE <<>>) \o << ")" >>
        \o << "{", "print", "i", ";" >>
        \o (IF case.cond THEN <<>> ELSE << "if", "(", "i", "==", "2", ")", "return", ";" >>)
        \o (IF case.incr THEN <<>> ELSE << "i", "=", "i", "+", "1", ";" >>)
        \o << "}", "print", "i", ";", "}", "f", "(", ")", ";" >>

\* How far beyond FUNCTION_MAX_ARGS the long functions and calls go.
CapOver == 5

CapSizes == (FUNCTION_MAX_ARGS - CapOver - 1)..(FUNCTION_MAX_ARGS + CapOver)

\* A function or a method of size parameters, a call of size arguments.
CapCases == [kind : {"function", "method", "call"}, size : CapSizes]

\* n items with commas between them.
Listed(n, item(_)) ==
    [i \in 1..(2 * n - 1) |-> IF i % 2 = 1 THEN item((i + 1) \div 2) ELSE ","]

One(i) == "1"

\* fun f(AA, AB, ...) { }
\* class K { f(AA, AB, ...) { } }
\* f(1, 1, ...)
CapWords(case) ==
    CASE case.kind = "function" ->
             << "fun", "f", "(" >> \o Listed(case.size, ParamWord)
                 \o << ")", "{", "}" >>
      [] case.kind = "method" ->
             << "class", "K", "{", "f", "(" >> \o Listed(case.size, ParamWord)
                 \o << ")", "{", "}", "}" >>
      [] case.kind = "call" ->
             << "f", "(" >> \o Listed(case.size, One) \o << ")" >>

ParserSources ==
    UNION { [1..n -> ParserWords] : n \in 0..MaxWords }
        \cup ParserCorpus \cup { ChainWords(chain) : chain \in Chains }
        \cup { ForWords(case) : case \in ForCases }

\* The words of the text, none before run is given one.
Words == IF source.lines = <<>> THEN <<>> ELSE source.lines[1]

ParserInit ==
    /\ Idle("run")
    /\ scanner = NoScanner
    /\ parser = NoParser

\* runFile: run(source) scans the text of the file and makes a Parser.
ParseNew ==
    /\ pc = "run"
    /\ \E words \in ParserSources :
          /\ source' = [prompt |-> FALSE, lines |-> << words >>]
          /\ parser' = Parser(Scanned(words))
    /\ pc' = "parsing"
    /\ UNCHANGED << scanner, line, statements, reporter, hadError, hadRuntimeError, stderr,
                    index, exitCode, thrown, interpreterVars >>

\* The errors the Parser has reported after the first n.
Reported(p, n) ==
    [i \in 1..(Len(p.errors) - n) |->
        Reporter_errorAtToken(p.errors[n + i].token, p.errors[n + i].message)]

\* One round of the loop of parse(); the Reporter writes the errors and
\* sets its flag.
ParseDeclaration ==
    /\ pc = "parsing"
    /\ ~Parser_isAtEnd(parser)
    /\ parser' = Parser_parseDeclaration(parser)
    /\ hadError' = (hadError \/ Len(parser'.errors) > Len(parser.errors))
    /\ stderr' = stderr \o Reported(parser', Len(parser.errors))
    /\ UNCHANGED << scanner, source, pc, line, statements, reporter, hadRuntimeError, index,
                    exitCode, thrown, interpreterVars >>

\* The end of parse(); run returns if the Reporter has an error.
ParseEnd ==
    /\ pc = "parsing"
    /\ Parser_isAtEnd(parser)
    /\ statements' = parser.statements
    /\ pc' = IF hadError THEN "ran" ELSE "resolve"
    /\ UNCHANGED << scanner, parser, source, line, reporter, hadError, hadRuntimeError,
                    stderr, index, exitCode, thrown, interpreterVars >>

ParserNext ==
    \/ ParseNew
    \/ ParseDeclaration
    \/ ParseEnd
    \/ RunResolve
    \/ InterpretStatement
    \/ InterpretRuntimeError
    \/ InterpretReturns
    \/ RunFileExit

ParserSpec == ParserInit /\ [][ParserNext]_vars

\* parse() has returned.
Parsed == pc \notin {"run", "parsing"}

\* Ternary(A, B1, Ternary(C1, B2, ... Ternary(C(n-1), Bn, Cn))), from the
\* i-th condition on.
RECURSIVE RightNested(_, _)
RightNested(chain, i) ==
    Ternary(chain[i].expr, ChainBranches[i].expr,
            IF i = Len(chain) THEN ChainElse.expr ELSE RightNested(chain, i + 1))

\* The branch the chain picks: that of the first truthy condition.
RECURSIVE Picked(_, _)
Picked(chain, i) ==
    IF chain[i].truthy THEN ChainBranches[i]
    ELSE IF i = Len(chain) THEN ChainElse
    ELSE Picked(chain, i + 1)

InvalidTarget == "Invalid assignment target."

\* C19: after `lhs = rhs`, a Variable gives Assign(name, rhs) and a Get gives
\* Set(object, name, rhs) without any report; any other lhs is reported at
\* the '=' as 'Invalid assignment target.', which sets the flag of the
\* Reporter, throws nothing and leaves the lhs as the expression; when a
\* text has no other error the parser never synchronizes, every round of
\* parse() returns a statement and parse() ends at the EOF token.
AssignmentTarget ==
    parser # NoParser =>
        /\ \A i \in DOMAIN parser.assigns :
              LET a == parser.assigns[i]
                  report == [token |-> parser.tokens[a.equals], message |-> InvalidTarget]
              IN  /\ parser.tokens[a.equals].type = "EQUAL"
                  /\ a.thrown = Normal
                  /\ a.target.k = "Variable" =>
                        /\ a.result = Assign(a.target.id, a.target.name, a.value)
                        /\ a.reported = <<>>
                  /\ a.target.k = "GetExpr" =>
                        /\ a.result = SetExpr(a.target.object, a.target.name, a.value)
                        /\ a.reported = <<>>
                  /\ a.target.k \notin {"Variable", "GetExpr"} =>
                        /\ a.result = a.target
                        /\ a.reported = << report >>
                        /\ hadError
        /\ (\A i \in DOMAIN parser.errors : parser.errors[i].message = InvalidTarget) =>
              /\ parser.syncs = <<>>
              /\ \A i \in DOMAIN parser.decls : parser.decls[i].stmt # NoStmt
              /\ Parsed => /\ parser.current = Len(parser.tokens) - 1
                           /\ statements = parser.statements
                           /\ hadError = (parser.errors # <<>>)

\* ( a ) = 1 , a . b = 2 ; print 3 ;  has been parsed: one report, the
\* Grouping left as it was, the Set made, and both statements returned.
AssignmentTargetWitness ==
    /\ pc = "exited"
    /\ exitCode = 65
    /\ Words = << "(", "a", ")", "=", "1", ",", "a", ".", "b", "=", "2", ";",
                  "print", "3", ";" >>
    /\ stderr = << "[line 1] Error at '=': Invalid assignment target." >>
    /\ statements =
          << Expression(Binary(Grouping(Variable(2, "a")), "COMMA",
                               SetExpr(Variable(7, "a"), "b", Literal(Num(2))))),
             PrintStmt(Literal(Num(3))) >>

\* The messages of the errors the parser reports without throwing.
NotThrown ==
    { InvalidTarget, "Cannot have more than 255 arguments.",
      "Can't have more than 255 parameters." }

\* The errors that came with a ParseError, in order.
ThrownErrors(p) == SelectSeq(p.errors, LAMBDA e : e.message \notin NotThrown)

\* The calls of #declaration that returned undefined, in order.
FailedDeclarations(p) == SelectSeq(p.decls, LAMBDA d : d.stmt = NoStmt)

\* Where the parser stands after discarding the token at position from (the
\* one the error was found at, unless it is EOF) and then tokens until a
\* semicolon has just been consumed or the next token is EOF or one of
\* class, fun, var, for, if, while, print, return.
SynchronizeTarget(tokens, from) ==
    LET last == Len(tokens) - 1
        first == IF from = last THEN last ELSE from + 1
        Stops(j) ==
            \/ j = last
            \/ tokens[j].type = "SEMICOLON"
            \/ tokens[j + 1].type \in SynchronizeAt
    IN  CHOOSE j \in first..last : Stops(j) /\ \A k \in first..(j - 1) : ~Stops(k)

\* The statements of a tree of statements.
RECURSIVE StatementsOf(_)
StatementsOf(stmt) ==
    LET all(stmts) == UNION { StatementsOf(stmts[i]) : i \in DOMAIN stmts }
    IN  {stmt} \cup
        CASE stmt.k = "Block" -> all(stmt.statements)
          [] stmt.k = "If" ->
                 all(IF stmt.elseBranch # NoStmt
                     THEN << stmt.thenBranch, stmt.elseBranch >>
                     ELSE << stmt.thenBranch >>)
          [] stmt.k = "While" -> all(<< stmt.body >>)
          [] stmt.k = "FunctionDecl" -> all(stmt.body)
          [] stmt.k = "Class" -> all(stmt.methods)
          [] OTHER -> {}

\* The statements parse() has returned, at any depth.
ReturnedStatements(p) == UNION { StatementsOf(p.statements[i]) : i \in DOMAIN p.statements }

\* The call e of #declaration encloses the call d.
Encloses(e, d) == e # d /\ e.start <= d.start /\ d.end <= e.end

\* The declarations of the top level that returned a statement, in order.
TopDeclarations(p) ==
    SelectSeq(p.decls, LAMBDA d : /\ d.stmt # NoStmt
                                  /\ \A i \in DOMAIN p.decls : ~Encloses(p.decls[i], d))

\* Every parse error is caught by a #declaration, which returns no
\* statement; the parser has discarded tokens up to SynchronizeTarget and
\* goes on with a declaration there, unless the block or the text ends.
Synchronized(p) ==
    /\ Len(p.syncs) = Len(ThrownErrors(p))
    /\ Len(p.syncs) = Len(FailedDeclarations(p))
    /\ \A i \in DOMAIN p.syncs :
          /\ ThrownErrors(p)[i].token = p.tokens[p.syncs[i].from + 1]
          /\ p.syncs[i].to = SynchronizeTarget(p.tokens, p.syncs[i].from)
          /\ FailedDeclarations(p)[i].start <= p.syncs[i].from
          /\ FailedDeclarations(p)[i].end = p.syncs[i].to
          /\ \/ p.tokens[p.syncs[i].to + 1].type \in {"EOF", "RIGHT_BRACE"}
             \/ \E j \in DOMAIN p.decls : p.decls[j].start = p.syncs[i].to
             \/ p.current = p.syncs[i].to
    /\ p.statements = [i \in DOMAIN TopDeclarations(p) |-> TopDeclarations(p)[i].stmt]

\* The declarations that returned a statement and start at or after a point
\* the parser has synchronized to.
AfterSynchronize(p) ==
    { d \in { p.decls[j] : j \in DOMAIN p.decls } :
        d.stmt # NoStmt /\ \E i \in DOMAIN p.syncs : d.start >= p.syncs[i].to }

\* C20 as stated: a parse error is reported, its declaration gives no
\* statement, the parser synchronizes and resumes at declaration, and every
\* well-formed declaration that starts at or after the synchronization point
\* is returned by parse().
ParserRecoveryOfAll ==
    parser # NoParser =>
        /\ Synchronized(parser)
        /\ Parsed => \A d \in AfterSynchronize(parser) :
                         d.stmt \in ReturnedStatements(parser)

\* C20, amended: as above, but a declaration that starts at or after the
\* synchronization point is returned by parse() when every declaration that
\* encloses it returns a statement; those of the top level always are, in
\* source order.
ParserRecovery ==
    parser # NoParser =>
        /\ Synchronized(parser)
        /\ Parsed => \A d \in AfterSynchronize(parser) :
                         (\A i \in DOMAIN parser.decls :
                             Encloses(parser.decls[i], d) => parser.decls[i].stmt # NoStmt)
                             => d.stmt \in ReturnedStatements(parser)

\* if ( a ) print ; else print 2 ; var a = 1 ;  two errors, two
\* synchronizations, and the two declarations after them are returned.
ParserRecoveryWitness ==
    /\ pc = "exited"
    /\ Words = << "if", "(", "a", ")", "print", ";", "else", "print", "2", ";",
                  "var", "a", "=", "1", ";" >>
    /\ parser.syncs = << [from |-> 5, to |-> 6], [from |-> 6, to |-> 7] >>
    /\ stderr = << "[line 1] Error at ';': Expected expression.",
                   "[line 1] Error at 'else': Expected expression." >>
    /\ statements = << PrintStmt(Literal(Num(2))), Var("a", Literal(Num(1))) >>


\* The statement the parser returns for the for loop of ForWords.
ForLoop == parser.statements[1].body[2]

\* What the program of ForWords prints: i from its first value to 2, then,
\* if the loop ended by its condition, the i of the function after the loop.
ForPrints(case) ==
    LET first == IF case.init = "none" THEN 0 ELSE 1
    IN  [n \in 1..(3 - first) |-> ToString(first + n - 1)]
            \o (IF ~case.cond THEN <<>>
                ELSE IF case.init = "var" THEN << "0" >> ELSE << "3" >>)

\* The While of the lowering has the condition of the loop, Literal(true)
\* for none, and the body: in a Block with the increment after it, or as it
\* is when the loop has no increment.
ForWhile(case, loop) ==
    /\ loop.k = "While"
    /\ IF case.cond THEN loop.condition.k = "Binary" /\ loop.condition.operator = "LESS"
       ELSE loop.condition = Literal(Bool(TRUE))
    /\ loop.body.k = "Block"
    /\ IF case.incr
       THEN /\ Len(loop.body.statements) = 2
            /\ loop.body.statements[1].k = "Block"
            /\ loop.body.statements[1].statements[1].k = "Print"
            /\ loop.body.statements[2].k = "Expression"
            /\ loop.body.statements[2].expression.k = "Assign"
       ELSE loop.body.statements[1].k = "Print"

Redeclaration ==
    /\ ~source.prompt
    /\ source.lines = << StatementsLine(ProgramRedeclare, FALSE) >>
    /\ pc \notin {"start", "resolve"}
    => /\ hadError
       /\ stderr # <<>>
       /\ thrown = Normal
       /\ pc # "crashed"

\* The messages of visitReturn.
ReturnMessages ==
    {"Can't return from top-level code.", "Can't return a value from an initializer."}

\* The errors the `return` statements of a statement deserve, in source
\* order, when the nearest enclosing function is of the given kind.
RECURSIVE ReturnErrorsOf(_, _)
RECURSIVE ReturnErrorsIn(_, _, _)
RECURSIVE ReturnErrorsOfMethods(_, _)
ReturnErrorsOf(stmt, kind) ==
    CASE stmt.k = "Return" ->
            (IF kind = "none" THEN << "Can't return from top-level code." >> ELSE <<>>)
                \o (IF stmt.value # NoExpr /\ kind = "initializer"
                    THEN << "Can't return a value from an initializer." >> ELSE <<>>)
      [] stmt.k = "Block" -> ReturnErrorsIn(stmt.statements, 1, kind)
      [] stmt.k = "If" ->
            ReturnErrorsOf(stmt.thenBranch, kind)
                \o (IF stmt.elseBranch # NoStmt THEN ReturnErrorsOf(stmt.elseBranch, kind)
                    ELSE <<>>)
      [] stmt.k = "While" -> ReturnErrorsOf(stmt.body, kind)
      [] stmt.k = "FunctionDecl" -> ReturnErrorsIn(stmt.body, 1, "function")
      [] stmt.k = "Class" -> ReturnErrorsOfMethods(stmt.methods, 1)
      [] OTHER -> <<>>

ReturnErrorsIn(stmts, i, kind) ==
    IF i > Len(stmts) THEN <<>>
    ELSE ReturnErrorsOf(stmts[i], kind) \o ReturnErrorsIn(stmts, i + 1, kind)

ReturnErrorsOfMethods(methods, i) ==
    IF i > Len(methods) THEN <<>>
    ELSE ReturnErrorsIn(methods[i].body, 1,
                        IF methods[i].name = "init" THEN "initializer" ELSE "method")
             \o ReturnErrorsOfMethods(methods, i + 1)

\* The messages about `return` among the given ones, in order.
AboutReturn(messages) ==
    LET isAboutReturn(m) == m \in ReturnMessages IN SelectSeq(messages, isAboutReturn)

\* C23: the resolver reports one error for every `return` outside all
\* functions and one for every `return <value>` whose nearest enclosing
\* function is an `init` method, and no other error about a `return`; when
\* it has resolved a whole program the function kind and the class kind are
\* what they were and the scope stack is empty.
ReturnChecks ==
    /\ pc = "resolve" /\ Resolved.thrown = Normal =>
          /\ AboutReturn(Resolved.errors) = ReturnErrorsIn(statements, 1, "none")
          /\ Resolved.currentFunction = "none"
          /\ Resolved.currentClass = "none"
          /\ Resolved.scopes = <<>>
    /\ ~source.prompt /\ pc \in {"interpret", "ran", "exited"} /\ ~Text.syntaxError =>
          AboutReturn(stderr) = ReturnErrorsIn(statements, 1, "none")

ReturnChecksWitness ==
    /\ ~source.prompt
    /\ statements = ProgramReturns
    /\ pc = "ran"
    /\ hadError
    /\ stderr = << "Can't return a value from an initializer.",
                   "Can't return a value from an initializer.",
                   "Can't return from top-level code.",
                   "Can't return from top-level code." >>

\* C24: a call evaluates the callee, then every argument from left to
\* right, and only then checks the callee and the number of arguments: a
\* callee that is not callable raises 'Can only call functions and
\* classes.' and a wrong number of arguments raises a runtime error, both
\* after all the arguments have had their effects and without a statement
\* of the body of the callee being executed.
CallProtocol ==
    \A callee \in CallCallees, n \in 0..MaxArgs :
        Ran(ProgramCall(callee, n)) =>
            LET evaluated == << "callee" >> \o [i \in 1..n |-> ToString(i)]
            IN  IF ~callee.callable
                THEN /\ output = evaluated
                     /\ hadRuntimeError
                     /\ stderr = << "Can only call functions and classes." >>
                ELSE IF n # callee.arity
                THEN /\ output = evaluated
                     /\ hadRuntimeError
                     /\ stderr = << ArityMessage(callee.arity, n) >>
                ELSE /\ output = evaluated
                                    \o (IF callee.body THEN << "body" >> ELSE <<>>)
                                    \o << "after" >>
                     /\ ~hadRuntimeError
                     /\ stderr = <<>>

CallProtocolWitness ==
    /\ Ran(ProgramCall([expr |-> Literal(Num(0)), callable |-> FALSE, arity |-> 0,
                         body |-> FALSE], 2))
    /\ output = << "callee", "1", "2" >>
    /\ stderr = << "Can only call functions and classes." >>
    /\ pc = "exited"

(***************************************************************************)
(* The LoxInstance on its own: instances of one class with the method m,   *)
(* on which get and set are called with every name and value.  trace      *)
(* holds the last call and thrown its completion.                          *)
(***************************************************************************)
\* Most instances.
MaxInstances == 2

\* m() { return this; }
InstanceMethod == FunctionDecl("m", <<>>, << Return(This(1)) >>)

\* class K { m() { return this; } }, declared in the globals.
InstanceClass ==
    LoxClass("K", MapSet(EmptyMap, InstanceMethod.name,
                         LoxFunction(InstanceMethod, Interpreter_globals, FALSE)))

\* The names of properties: that of the method, and another.
InstanceNames == {"m", "f"}

\* Values of every type that fields are set to.
InstanceValues ==
    {Nil, Bool(FALSE), Num(0), Str(""), ClockFunction, InstanceClass, InstanceRef(1)}

InstanceInit == Idle("instance") /\ scanner = NoScanner /\ parser = NoParser

\* The call op has been made, with the completion c, and left the
\* instances is.
InstanceCalled(op, c, is) ==
    /\ pc = "instance"
    /\ instances' = is
    /\ thrown' = c
    /\ trace' = << op >>
    /\ UNCHANGED << scanner, parser, source, pc, line, statements, reporter, hadError,
                    hadRuntimeError, stderr, index, exitCode, locals, envs, environment,
                    output, nextInv >>

\* K(): LoxClass.call makes an instance.
InstanceNew ==
    /\ Len(instances) < MaxInstances
    /\ LET called(r) == InstanceCalled([e |-> "new", instance |-> r.v], r.c, r.instances)
       IN  called(LoxClass_call(InstanceClass, <<>>, InterpreterState))

InstanceSet ==
    \E i \in DOMAIN instances, name \in InstanceNames, value \in InstanceValues :
        LET called(r) ==
                InstanceCalled([e |-> "set", instance |-> InstanceRef(i), name |-> name,
                                value |-> value],
                               r.c, r.instances)
        IN  called(LoxInstance_set(InstanceRef(i), name, value, InterpreterState))

\* get: the result, and for a method the `this` of its closure.
InstanceGet ==
    \E i \in DOMAIN instances, name \in InstanceNames :
        LET called(r) ==
                InstanceCalled(
                    [e |-> "get", instance |-> InstanceRef(i), name |-> name,
                     result |-> r.v,
                     this |-> IF r.c = Normal /\ r.v.t = "function"
                              THEN MapGet(r.envs[r.v.closure].values, "this")
                              ELSE Undefined],
                    r.c, r.instances)
        IN  called(LoxInstance_get(InstanceRef(i), name, InterpreterState))

InstanceNext == InstanceNew \/ InstanceSet \/ InstanceGet

InstanceSpec == InstanceInit /\ [][InstanceNext]_vars

\* What a call of set or get has done, from the instances before it to
\* those after it.
InstanceStep ==
    LET op == trace'[1]
        id == op.instance.id
    IN  /\ op.e = "set" =>
              /\ LoxInstance_get(op.instance, op.name, InterpreterState').c = Normal
              /\ LoxInstance_get(op.instance, op.name, InterpreterState').v = op.value
              /\ DOMAIN instances' = DOMAIN instances
              /\ \A j \in DOMAIN instances : j # id => instances'[j] = instances[j]
              /\ instances'[id].klass = instances[id].klass
              /\ \A n \in InstanceNames \ {op.name} :
                    MapGet(instances'[id].fields, n) = MapGet(instances[id].fields, n)
        /\ op.e = "get" =>
              /\ instances' = instances
              /\ IF op.name \in DOMAIN instances[id].fields
                 THEN thrown' = Normal /\ op.result = instances[id].fields[op.name]
                 ELSE IF op.name = InstanceMethod.name
                 THEN /\ thrown' = Normal
                      /\ op.result.t = "function"
                      /\ op.result.declaration = InstanceMethod
                      /\ op.this = op.instance
                 ELSE thrown' = RuntimeError(op.name, "Undefined property 'f'.")

\* C25: after set(name, v) on an instance, get(name) on it returns v, for
\* values of every type and also for the name of a method of the class; a
\* get of a name that is neither a field nor a method raises "Undefined
\* property 'X'."; a set changes neither another field, nor another
\* instance, nor the class.
InstanceProperties == [][InstanceStep]_vars

InstanceCase(mine, other) ==
    /\ Len(instances) = 2
    /\ instances[1].fields = mine
    /\ instances[2].fields = other
    /\ instances[2].klass = InstanceClass

InstancePropertiesWitness ==
    /\ pc = "instance"
    /\ InstanceCase([n \in {"m"} |-> Nil], [n \in {"f"} |-> Num(0)])
    /\ trace = << [e |-> "get", instance |-> InstanceRef(1), name |-> "m",
                   result |-> Nil, this |-> Undefined] >>
    /\ thrown = Normal

\* The names the lines before the current one have defined in the globals,
\* each by a line that reported no error.
RECURSIVE ReplDefined(_)
ReplDefined(n) ==
    IF n = 0 THEN {}
    ELSE ReplDefined(n - 1)
            \cup (IF source.lines[n].syntaxError THEN {}
                  ELSE { source.lines[n].stmts[i].name :
                           i \in { j \in DOMAIN source.lines[n].stmts :
                                     source.lines[n].stmts[j].k
                                         \in {"Var", "FunctionDecl", "Class"} } })

\* At the prompt every line starts with the flags of a fresh Reporter, in
\* the globals, and with the globals the lines before it have defined.
ReplLineStarts ==
    source.prompt /\ pc = "start" =>
        /\ ~hadError
        /\ ~hadRuntimeError
        /\ environment = Interpreter_globals
        /\ ReplDefined(line - 1) \subseteq DOMAIN envs[Interpreter_globals].values

\* C26: at the prompt the interpreter and its globals persist while every
\* line gets a fresh Reporter: what a line defines in the globals is visible
\* to the later lines, and a compile error or a runtime error in a line
\* neither keeps a later line from being run nor leaves a flag set for it.
ReplPersistence ==
    /\ ReplLineStarts
    /\ source.prompt /\ Final => line = Len(source.lines)
    /\ Session(<< 1, 2 >>) => output = << "2" >>
    /\ Session(<< 12, 2 >>) => pc = "exited" /\ stderr # <<>>

(***************************************************************************)
(* The prompt with a Scanner and a Parser: run(line, reporter, true) scans *)
(* the line, and parses it with parseAsExpression() or with parse().       *)
(***************************************************************************)
\* parseAsExpression: one expression, then the end of the input; a
\* ParseError is caught and nothing is returned.
Parser_parseAsExpression(p) ==
    LET caught(r) ==
            IF r.c = ParseError THEN [r EXCEPT !.c = Normal, !.v = NoExpr] ELSE r
        returned(e, r) == IF r.c # Normal THEN r ELSE Value(r, e.v)
        consumed(e) ==
            IF e.c # Normal THEN e
            ELSE returned(e, Parser_consume(e, "EOF", "Expected end of input after expression."))
    IN  caught(consumed(Parser_method("expression", p)))

\* Longest line made of the words of ReplWords.
MaxLineWords == 3

ReplWords == {"print", "a", "1", "+", ";", "="}

ReplCorpus ==
    { << "fun", "f", "(", ")", "{", "}" >>,
      << "class", "A", "{", "}" >>,
      << "{", "}" >>,
      << "if", "(", "true", ")", "{", "}" >>,
      << "1", "+", "2" >>,
      << "a", "=", "1", "+", "2" >>,
      << "print", "a", ";" >>,
      << "var", "a", "=", "1", ";", "print", "a", ";" >>,
      << "fun", "f", "(", ")", "{", "}", "print", "f", ";" >>,
      << "1", "+", "nil", ";" >> }

\* The lines typed at the prompt; runPrompt leaves at an empty one.
ReplLines == UNION { [1..n -> ReplWords] : n \in 1..MaxLineWords } \cup ReplCorpus

\* tokens.every((token) => token.type !== "SEMICOLON")
NoSemicolon(tokens) == \A i \in 1..Len(tokens) : tokens[i].type # "SEMICOLON"

\* The words of the line run() is given.
ReplText == IF source.lines = <<>> THEN <<>> ELSE source.lines[1].words

ReplInit ==
    /\ Idle("prompt")
    /\ scanner = NoScanner
    /\ parser = NoParser

\* runPrompt reads a line; run scans it, makes a Parser and tests the
\* tokens for a semicolon.
ReplRun ==
    /\ pc = "prompt"
    /\ \E words \in ReplLines :
          /\ source' = [prompt |-> TRUE,
                        lines |-> << [single |-> NoSemicolon(Scanned(words)), stmts |-> <<>>,
                                      expr |-> NoExpr, syntaxError |-> FALSE,
                                      words |-> words] >>]
          /\ parser' = Parser(Scanned(words))
          /\ pc' = IF NoSemicolon(Scanned(words)) THEN "parsingExpression" ELSE "parsing"
    /\ UNCHANGED << scanner, line, statements, reporter, hadError, hadRuntimeError, stderr,
                    index, exitCode, thrown, interpreterVars >>

\* run, single-expression mode: the expression is interpreted if there is
\* one and no error was reported; run returns in both cases.
ReplParseAsExpression ==
    /\ pc = "parsingExpression"
    /\ parser' = Parser_parseAsExpression(parser)
    /\ hadError' = (hadError \/ Len(parser'.errors) > Len(parser.errors))
    /\ stderr' = stderr \o Reported(parser', Len(parser.errors))
    /\ source' = [source EXCEPT !.lines[1].expr = parser'.v,
                                !.lines[1].syntaxError = hadError']
    /\ pc' = IF parser'.c # Normal THEN "crashed"
             ELSE IF parser'.v # NoExpr /\ ~hadError' THEN "expression"
             ELSE "ran"
    /\ UNCHANGED << scanner, line, statements, reporter, hadRuntimeError, index, exitCode,
                    thrown, interpreterVars >>

ReplNext ==
    \/ ReplRun
    \/ ReplParseAsExpression
    \/ ParseDeclaration
    \/ ParseEnd
    \/ RunResolve
    \/ InterpretStatement
    \/ InterpretRuntimeError
    \/ InterpretReturns
    \/ InterpretExpression
    \/ InterpretExpressionThrows
    \/ RunPromptClose

ReplSpec == ReplInit /\ [][ReplNext]_vars

\* The line as parse() parses it, and as parseAsExpression() does.
ReplAsStatements == Parser_parse(Parser(Scanned(ReplText)))

ReplAsExpression == Parser_parseAsExpression(Parser(Scanned(ReplText)))

\* The single-expression mode is tried and succeeds.
ReplSucceeds ==
    /\ NoSemicolon(Scanned(ReplText))
    /\ ReplAsExpression.v # NoExpr
    /\ ReplAsExpression.errors = <<>>

\* The names the statements of the line declare at the top level.
ReplDeclared(stmts) ==
    { stmts[i].name.lexeme : i \in { j \in 1..Len(stmts) : stmts[j].k \in {"FunctionDecl", "Class", "Var"} } }

\* C27: a line of the prompt without a semicolon that parses as one
\* expression followed by the end of the input is evaluated and its value
\* is printed; every other line is parsed as declarations and statements,
\* resolved and interpreted: what parse() reports is all that is reported
\* before the run, and when it reports nothing the names the line declares
\* are defined in the globals.
ReplDispatch ==
    pc = "exited" =>
        IF ReplSucceeds
        THEN \/ Len(output) = 1 /\ stderr = <<>>
             \/ output = <<>> /\ hadRuntimeError
        ELSE /\ statements = ReplAsStatements.statements
             /\ ReplAsStatements.errors = <<>> =>
                   /\ ~hadError
                   /\ \A name \in ReplDeclared(statements) : name \in DOMAIN envs[Interpreter_globals].values

\* What run does with the lines of the prompt: a line with a semicolon is
\* parsed by parse(); a line without one is parsed by parseAsExpression()
\* only, and when that finds no expression or reports an error, nothing of
\* the line is run.
ReplDispatchOfRun ==
    pc = "exited" =>
        IF ReplSucceeds
        THEN \/ Len(output) = 1 /\ stderr = <<>>
             \/ output = <<>> /\ hadRuntimeError
        ELSE IF NoSemicolon(Scanned(ReplText))
        THEN /\ statements = <<>>
             /\ output = <<>>
             /\ hadError
             /\ stderr = Reported(ReplAsExpression, 0)
             /\ envs = InitialEnvs
        ELSE /\ statements = ReplAsStatements.statements
             /\ hadError = (ReplAsStatements.errors # <<>>)

\* A line that is a function declaration has gone through the prompt.
ReplDispatchWitness ==
    /\ pc = "exited"
    /\ ReplText = << "fun", "f", "(", ")", "{", "}" >>

(***************************************************************************)
(* The look-up of the reserved words, under ScannerSpec.                   *)
(***************************************************************************)
\* The source is one lexeme [A-Za-z_][A-Za-z0-9_]*.
IsIdentifierLexeme(chars) ==
    /\ chars # <<>>
    /\ isAlpha(chars[1])
    /\ \A i \in 1..Len(chars) : isAlphaNumeric(chars[i])

\* The type the lexeme is to have: that of the reserved word, IDENTIFIER
\* for every other lexeme.
KeywordOrIdentifier(text) == IF text \in DOMAIN KEYWORDS THEN KEYWORDS[text] ELSE "IDENTIFIER"

\* The tokens of a source that is one lexeme are one token of the given
\* type with that lexeme, and EOF.
OneLexeme(type) ==
    /\ Len(scanner.tokens) = 2
    /\ scanner.tokens[1].type = type
    /\ scanner.tokens[1].lexeme = Join(scanner.source)
    /\ scanner.tokens[2].type = "EOF"

\* C28: a maximal lexeme [A-Za-z_][A-Za-z0-9_]* yields one token, of the
\* type of the reserved word if it is one of the 16, of type IDENTIFIER
\* otherwise, also when a reserved word is a proper prefix of it and when
\* it is the name of a built-in property of a JavaScript object.
KeywordLookup ==
    pc = "scanned" /\ IsIdentifierLexeme(scanner.source) =>
        OneLexeme(KeywordOrIdentifier(Join(scanner.source)))

\* The same for the lexemes that are no property of Object.prototype; for
\* those that are, the type of the token is no token type at all.
KeywordLookupOwn ==
    pc = "scanned" /\ IsIdentifierLexeme(scanner.source) =>
        IF Join(scanner.source) \in ObjectPrototype
        THEN OneLexeme("Object.prototype." \o Join(scanner.source))
        ELSE OneLexeme(KeywordOrIdentifier(Join(scanner.source)))

(***************************************************************************)
(* The cap on parameters and arguments, under ParserSpec.                  *)
(***************************************************************************)
\* runFile on the long functions and calls, up to the test of the flag of
\* the Reporter after parse(); the calls are parsed by #call.
CapInit ==
    /\ Idle("run")
    /\ scanner = NoScanner
    /\ parser = NoParser

CapNew ==
    /\ pc = "run"
    /\ \E case \in CapCases :
          /\ source' = [prompt |-> FALSE, lines |-> << CapWords(case) >>]
          /\ parser' = Parser(Scanned(CapWords(case)))
          /\ pc' = IF case.kind = "call" THEN "call" ELSE "parsing"
    /\ UNCHANGED << scanner, line, statements, reporter, hadError, hadRuntimeError, stderr,
                    index, exitCode, thrown, interpreterVars >>

\* #call on the tokens of a call; the Reporter writes the errors and sets
\* its flag.
CapCall ==
    /\ pc = "call"
    /\ parser' = Parser_call(parser)
    /\ hadError' = (hadError \/ Len(parser'.errors) > Len(parser.errors))
    /\ stderr' = stderr \o Reported(parser', Len(parser.errors))
    /\ pc' = "parsing"
    /\ UNCHANGED << scanner, source, line, statements, reporter, hadRuntimeError, index,
                    exitCode, thrown, interpreterVars >>

CapNext ==
    \/ CapNew
    \/ CapCall
    \/ ParseDeclaration
    \/ ParseEnd
    \/ RunFileExit

CapSpec == CapInit /\ [][CapNext]_vars

\* How many of n items are beyond the FUNCTION_MAX_ARGS-th.
Beyond(n) == IF n > FUNCTION_MAX_ARGS THEN n - FUNCTION_MAX_ARGS ELSE 0

\* What the Reporter writes for the long function or call of the case: one
\* line for each item beyond the cap, at that item.
CapDiagnostics(case) ==
    [i \in 1..Beyond(case.size) |->
        IF case.kind = "call"
        THEN "[line 1] Error at '1': Cannot have more than 255 arguments."
        ELSE "[line 1] Error at '" \o ParamWord(FUNCTION_MAX_ARGS + i)
                 \o "': Can't have more than 255 parameters."]

\* The node with the items: the FunctionDecl of f among the statements of
\* parse(), or the Call that #call has returned.
CapNode(case) ==
    CASE case.kind = "function" -> parser.statements[1]
      [] case.kind = "method" -> parser.statements[1].methods[1]
      [] case.kind = "call" -> parser.v

CapItems(case) ==
    IF case.kind = "call" THEN [j \in 1..case.size |-> Literal(Num(1))]
    ELSE [j \in 1..case.size |-> ParamWord(j)]

\* The parser is through with the text of the case.
CapParsed == pc \notin {"run", "call"} /\ Parser_isAtEnd(parser)

\* C29: a parameter list or an argument list of up to 255 items gets no
\* diagnostic; of a longer one each item beyond the 255th gets a
\* diagnostic, no ParseError is thrown, the parser does not synchronize and
\* returns the FunctionDecl or the Call with all the items; the flag of
\* the Reporter is set and the program is not run.
ArgumentCap ==
    CapParsed =>
        \A case \in CapCases :
            Words = CapWords(case) =>
                /\ stderr = CapDiagnostics(case)
                /\ parser.c = Normal
                /\ parser.syncs = <<>>
                /\ CapNode(case).k = (IF case.kind = "call" THEN "Call" ELSE "FunctionDecl")
                /\ (IF case.kind = "call" THEN CapNode(case).args ELSE CapNode(case).params)
                       = CapItems(case)
                /\ hadError = (case.size > FUNCTION_MAX_ARGS)
                /\ pc \notin {"resolve", "interpret"} \/ ~hadError
                /\ index = 0
                /\ output = <<>>

\* A function of two parameters beyond the cap has been parsed and run has
\* returned; so has a call of one argument beyond the cap.
ArgumentCapWitness ==
    /\ pc = "ran"
    /\ hadError
    /\ \/ /\ Words = CapWords([kind |-> "function", size |-> FUNCTION_MAX_ARGS + 2])
          /\ Len(parser.statements[1].params) = FUNCTION_MAX_ARGS + 2
          /\ Len(stderr) = 2
       \/ /\ Words = CapWords([kind |-> "call", size |-> FUNCTION_MAX_ARGS + 1])
          /\ Len(parser.v.args) = FUNCTION_MAX_ARGS + 1
          /\ Len(stderr) = 1

(***************************************************************************)
(* The Parser under fairness, on the texts of at most MaxFairWords words   *)
(* of FairWords: the loop of parse() runs on its own, one round after the  *)
(* other, until the Parser is at the EOF token.                            *)
(***************************************************************************)
MaxFairWords == 3

FairWords == {"print", "var", "a", "1", ";", "{", "}"}

ParserFairSources == UNION { [1..n -> FairWords] : n \in 0..MaxFairWords }

ParseNewFair ==
    /\ pc = "run"
    /\ \E words \in ParserFairSources :
          /\ source' = [prompt |-> FALSE, lines |-> << words >>]
          /\ parser' = Parser(Scanned(words))
    /\ pc' = "parsing"
    /\ UNCHANGED << scanner, line, statements, reporter, hadError, hadRuntimeError, stderr,
                    index, exitCode, thrown, interpreterVars >>

ParserFairNext == ParseNewFair \/ ParseDeclaration \/ ParseEnd

\* The condition of the loop of parse() holds: a round is to begin.
ParseLoops == pc = "parsing" /\ ~Parser_isAtEnd(parser)

\* parse() is a loop of synchronous code: once called it runs on.  The
\* fairness of ParseDeclaration is weak fairness with its enabling
\* condition written out: ParseDeclaration is enabled exactly where
\* ParseLoops holds, and each of its steps changes the Parser.
ParserFairSpec ==
    /\ ParserInit /\ [][ParserFairNext]_vars
    /\ WF_vars(ParseEnd)
    /\ ([]<>(~ParseLoops) \/ []<><<ParseDeclaration>>_vars)

\* Every call of #declaration so far, by parse() or by #block, has taken at
\* least one token; one that has caught a ParseError has synchronized.
EveryRoundAdvances ==
    \A i \in DOMAIN parser.decls :
        /\ parser.decls[i].end > parser.decls[i].start
        /\ parser.decls[i].stmt = NoStmt =>
               \E j \in DOMAIN parser.syncs :
                   /\ parser.syncs[j].to = parser.decls[i].end
                   /\ parser.syncs[j].from >= parser.decls[i].start

\* The Parser stands at a token, the EOF token at most, and nothing has
\* been thrown out of it.
ParserInBounds ==
    /\ parser.c = Normal
    /\ parser.current >= 0
    /\ parser.current < Len(parser.tokens)
    /\ parser.tokens[Len(parser.tokens)].type = "EOF"

\* A round of the loop of parse() moves the Parser forward.
ParserForward ==
    pc = "parsing" /\ pc' = "parsing" => parser'.current > parser.current

\* C30: on every sequence of tokens that ends with EOF, parse() terminates:
\* every round of the loop of parse() and of the loop of #block takes at
\* least one token, with a statement returned or a ParseError caught and
\* synchronized; the position never decreases and never passes the EOF
\* token; and nothing but the ParseError, which is caught, is thrown.
ParserTermination ==
    /\ [](pc # "run" => EveryRoundAdvances /\ ParserInBounds)
    /\ [][ParserForward]_vars
    /\ (pc = "parsing" ~> pc \in {"ran", "resolve"})

\* parse() has returned after a round of the loop of #block that caught a
\* ParseError at the EOF token.
ParserTerminationWitness ==
    /\ pc \in {"ran", "resolve"}
    /\ Words = << "{", "print" >>
    /\ \E i \in DOMAIN parser.decls :
          parser.decls[i].stmt = NoStmt /\ parser.decls[i].start > 0
    /\ Parser_isAtEnd(parser)

=============================================================================
